---- MODULE Spec2Model ----
(***************************************************************************)
(* x402 facilitator (functions/index.js): the /weather handler and the     *)
(* payment verification and settlement engine verifyAndSettle.             *)
(*                                                                         *)
(* JavaScript runs each handler to completion between two awaits, so one   *)
(* action is the code from one await (or from the arrival of the request)  *)
(* up to the next await or to the response.  verifyAndSettle awaits twice: *)
(* connection.getParsedTokenAccountsByOwner (inside checkMembership) and   *)
(* connection.sendRawTransaction (inside broadcastTransaction).            *)
(*                                                                         *)
(* The three libraries are outside the repository.  What they return is    *)
(* drawn from the sets below: Buffer/JSON.parse (the header), web3.js      *)
(* Transaction.from and Transaction.serialize, spl-token                   *)
(* decodeTransferCheckedInstruction, and the two RPC calls.                *)
(*                                                                         *)
(* The payer's side (unnamed/part_001, the Wallet component) follows the   *)
(* server: its transaction builder, and the page with its buttons and the  *)
(* handlers that wait for the requirements, the wallet and the server.     *)
(***************************************************************************)
EXTENDS Integers, Sequences, FiniteSets, TLC

VARIABLES
    pc,          \* per request: "idle", "awaitBalance", "awaitBroadcast", "done"
    httpReq,     \* per request: [method, path, header] as received
    tx,          \* per request: the Transaction built by solTransaction.from, or NoTx
    membership,  \* per request: what checkMembership read and returned
    trace,       \* per request: the calls made so far, in order
    sent,        \* per request: the transactions handed to sendRawTransaction
    answer,      \* per request: what sendRawTransaction answered
    outcome,     \* per request: how verifyAndSettle ended
    response,    \* per request: the HTTP response sent
    warm,        \* the function instance has answered a request before
    codec,       \* the header codec: the payload a client encoded, the header
                 \* value on the wire, and what the server decoded from it
    engine,      \* one evaluation of the engine's synchronous code on inputs of
                 \* its own: the requirements, the header, the transaction, the
                 \* membership answer, and how the evaluation ended
    client       \* the payer's page (part_001): the component's state, the
                 \* handlers in flight, and what was submitted so far

vars == <<pc, httpReq, tx, membership, trace, sent, answer, outcome, response, warm,
          codec, engine, client>>

(***************************************************************************)
(* Bounds of the model.                                                    *)
(***************************************************************************)
NReq == 2          \* request slots (function instances)
MaxInstr == 2      \* instructions in a submitted transaction
MaxAccounts == 2   \* token accounts in one RPC answer
MaxStr == 2        \* characters in txBase64 and in reference, for the codec

Requests == 1..NReq

(***************************************************************************)
(* Program constants and configuration.                                    *)
(***************************************************************************)
PRICE == 10000
TOKEN_DECIMALS == 6
memberSplReq == 1
USDC_MINT == "EPjFWdd5AufqSSqeM2qN1xzybapC8G4wEGGkZwyTDt1v"
MERCHANT_TOKEN_ACCOUNT == "merchanttokenacc"
memberSpl == "memberspl"
TOKEN_PROGRAM_ID == "TokenProgram"

Undefined == "undefined"
Null == "null"

paymentRequirements ==
    [x402Version |-> "num:1",
     accepts |-> << [scheme |-> "exact",
                     network |-> "solana-mainnet-beta",
                     asset |-> USDC_MINT,
                     maxAmountRequired |-> PRICE,
                     payTo |-> MERCHANT_TOKEN_ACCOUNT,
                     resource |-> "GET /weather",
                     maxTimeoutSeconds |-> 120] >>]

(***************************************************************************)
(* Inputs: the HTTP request.                                               *)
(* A header value is described by what Buffer.from(.., "base64") followed  *)
(* by JSON.parse makes of it: a syntax error, null, a primitive, or an     *)
(* object with the four fields the code reads.  A JSON number 1 is         *)
(* "num:1" and the JSON string "1" is "str:1": the code compares with !==. *)
(* payload.txBase64 is "garbage" for a string Transaction.from rejects,    *)
(* "wellformed" for one it accepts, "nonstring" for a truthy value that    *)
(* Buffer.from rejects.                                                    *)
(***************************************************************************)
Methods == {"GET", "OPTIONS", "POST"}
Paths == {"/", "/weather", "/other"}

NoHeader == [json |-> "absent"]
EmptyHeader == [json |-> "empty"]
NonObjectHeaders == {[json |-> "invalid"], [json |-> "null"], [json |-> "primitive"]}

Payloads ==
    {[kind |-> Undefined], [kind |-> Null], [kind |-> "primitive"]}
    \cup [kind : {"object"},
          txBase64 : {Undefined, "", "nonstring", "garbage", "wellformed"},
          reference : {Undefined, "", "ref"}]

ObjectHeaders ==
    [json : {"object"},
     x402Version : {"num:1", "num:2", "str:1", Undefined},
     scheme : {"exact", "upto"},
     network : {"solana-mainnet-beta", "solana-devnet"},
     payload : Payloads]

HeaderValues == {NoHeader, EmptyHeader} \cup NonObjectHeaders \cup ObjectHeaders

(***************************************************************************)
(* Inputs: the transaction Transaction.from builds.                        *)
(***************************************************************************)
Keys == {"buyer", "other"}
Amounts == {PRICE - 1, PRICE, PRICE + 1}
Decimals == {TOKEN_DECIMALS, 9}
Destinations == {MERCHANT_TOKEN_ACCOUNT, "otherTokenAcc"}
Mints == {USDC_MINT, "otherMint"}

TransferCheckedIxs ==
    [programId : {TOKEN_PROGRAM_ID}, decodes : {TRUE},
     amount : Amounts, decimals : Decimals,
     destination : Destinations, mint : Mints, owner : {"buyer"}]

\* the transfer the requirement asks for, by the authority of somebody who is
\* not the fee payer (keys.owner of the decoded instruction, which the code
\* does not read)
ForeignOwnerIx ==
    [programId |-> TOKEN_PROGRAM_ID, decodes |-> TRUE, amount |-> PRICE,
     decimals |-> TOKEN_DECIMALS, destination |-> MERCHANT_TOKEN_ACCOUNT,
     mint |-> USDC_MINT, owner |-> "other"]

\* a token-program instruction that is not a transferChecked
OtherTokenIx ==
    [programId |-> TOKEN_PROGRAM_ID, decodes |-> FALSE,
     amount |-> 0, decimals |-> 0, destination |-> Undefined, mint |-> Undefined,
     owner |-> Undefined]

MemoIx ==
    [programId |-> "MemoProgram", decodes |-> FALSE,
     amount |-> 0, decimals |-> 0, destination |-> Undefined, mint |-> Undefined,
     owner |-> Undefined]

Instructions == TransferCheckedIxs \cup {ForeignOwnerIx, OtherTokenIx, MemoIx}

SeqsUpTo(S, n) == UNION {[1..k -> S] : k \in 0..n}

\* Transaction.populate: signatures[i].publicKey is accountKeys[i], and the fee
\* payer is accountKeys[0]; a signature of 64 zero bytes is read as null.
SignaturesOf(feePayer) ==
    IF feePayer = Undefined
    THEN {<< >>}
    ELSE {<< >>,
          << [publicKey |-> feePayer, signature |-> Null] >>,
          << [publicKey |-> feePayer, signature |-> "sig"] >>,
          << [publicKey |-> feePayer, signature |-> Null],
             [publicKey |-> "other", signature |-> "sig"] >>}

Transactions ==
    UNION {[feePayer : {fp},
            signatures : SignaturesOf(fp),
            instructions : SeqsUpTo(Instructions, MaxInstr)]
           : fp \in {"buyer", Undefined}}

NoTx == [feePayer |-> Undefined, signatures |-> << >>, instructions |-> << >>,
         none |-> TRUE]

(***************************************************************************)
(* Inputs: the answers of the two RPC calls.                               *)
(***************************************************************************)
Balances == 0..(memberSplReq + 1)

TokenAccounts ==
    [mint : {memberSpl}, uiAmount : Balances]
    \cup {[mint |-> USDC_MINT, uiAmount |-> memberSplReq + 1]}

TokenAccountLists == SeqsUpTo(TokenAccounts, MaxAccounts)

TxHashes == {"abc123", ""}

(***************************************************************************)
(* Error messages (e.message as the handler reports it).                   *)
(***************************************************************************)
ErrDecode == "Failed to decode x-payment header"
ErrNullHeader == "TypeError: Cannot read properties of null (reading 'x402Version')"
ErrUnsupported == "Unsupported x402 version / scheme / network"
ErrMissingTx == "Missing txBase64 in payload"
ErrMissingRef == "Missing reference in payload"
ErrBufferFrom == "TypeError: The first argument must be of type string"
ErrTxFrom == "Reached end of buffer unexpectedly"
ErrNoFeePayer == "TypeError: Cannot read properties of undefined (reading 'toBase58')"
ErrRpc == "getParsedTokenAccountsByOwner failed"
ErrNoTransfer == "No Token transferChecked in tx"
ErrDecodeIx == "TokenInvalidInstructionTypeError"
ErrNotTransferChecked == "Instruction is not transferChecked"
ErrDecimals == "Token decimals must be 6"
ErrAmount == "Incorrect amount"
ErrDestination == "Funds not going to the merchant account"
ErrMint == "Wrong token mint"
ErrSignature == "Buyer (fee payer) signature missing"
ErrSerialize == "Signature verification failed"
ErrSend == "failed to send transaction"
ErrBlockhash == "Blockhash not found"
SendErrors == {ErrSend, ErrBlockhash}

Ok(v) == [threw |-> FALSE, value |-> v]
Throw(m) == [threw |-> TRUE, value |-> m]

(***************************************************************************)
(* JavaScript value helpers.                                               *)
(***************************************************************************)
\* !v for the values a header field takes
Falsy(v) == v \in {Undefined, Null, ""}

\* decoded.f on a non-null decoded value: a primitive has no such property
Field(decoded, f) ==
    IF decoded.json = "object" THEN decoded[f] ELSE Undefined

\* const { txBase64, reference } = decoded.payload ?? {}
PayloadField(decoded, f) ==
    IF decoded.json = "object" /\ decoded.payload.kind = "object"
    THEN decoded.payload[f]
    ELSE Undefined

Min(S) == CHOOSE x \in S : \A y \in S : x <= y
Max(S) == CHOOSE x \in S : \A y \in S : x >= y

(***************************************************************************)
(* Core verification and settlement helpers.                               *)
(***************************************************************************)
decodePaymentHeader(headerValue) ==
    IF headerValue.json = "invalid" THEN Throw(ErrDecode) ELSE Ok(headerValue)

\* variant: the network is not compared
validatePaymentRequirements_noNetwork(decoded, requirements) ==
    LET req == requirements.accepts[1] IN
    IF decoded.json = "null" THEN Throw(ErrNullHeader)
    ELSE IF \/ Field(decoded, "x402Version") # requirements.x402Version
            \/ Field(decoded, "scheme") # req.scheme
         THEN Throw(ErrUnsupported)
         ELSE Ok(req)

\* variant: the first entry that the header names is taken
validatePaymentRequirements_anyEntry(decoded, requirements) ==
    LET named == {i \in DOMAIN requirements.accepts :
                     /\ Field(decoded, "scheme") = requirements.accepts[i].scheme
                     /\ Field(decoded, "network") = requirements.accepts[i].network}
    IN
    IF decoded.json = "null" THEN Throw(ErrNullHeader)
    ELSE IF Field(decoded, "x402Version") # requirements.x402Version \/ named = {}
         THEN Throw(ErrUnsupported)
         ELSE Ok(requirements.accepts[Min(named)])

validatePaymentRequirements(decoded, requirements) ==
    LET req == requirements.accepts[1] IN
    IF decoded.json = "null" THEN Throw(ErrNullHeader)
    ELSE IF \/ Field(decoded, "x402Version") # requirements.x402Version
            \/ Field(decoded, "scheme") # req.scheme
            \/ Field(decoded, "network") # req.network
         THEN Throw(ErrUnsupported)
         ELSE Ok(req)

\* variant: bytes that are no transaction give an empty transaction
solTransactionFrom_lenient(txBase64, built) ==
    IF txBase64 = "nonstring" THEN Throw(ErrBufferFrom)
    ELSE Ok(built)

\* solTransaction.from(Buffer.from(txBase64, "base64")); built is what the
\* library builds from well-formed bytes
solTransactionFrom(txBase64, built) ==
    IF txBase64 = "nonstring" THEN Throw(ErrBufferFrom)
    ELSE IF txBase64 = "garbage" THEN Throw(ErrTxFrom)
    ELSE Ok(built)

\* variant: balance >= memberSplReq
checkMembership_inclusive(tokenAccounts) ==
    LET matching == {i \in DOMAIN tokenAccounts : tokenAccounts[i].mint = memberSpl} IN
    IF matching = {}
    THEN [found |-> FALSE, balance |-> 0, isMember |-> FALSE]
    ELSE LET balance == tokenAccounts[Min(matching)].uiAmount IN
         [found |-> TRUE, balance |-> balance, isMember |-> balance >= memberSplReq]

\* variant: a fee payer without account of the membership token is let in
checkMembership_missingGranted(tokenAccounts) ==
    LET matching == {i \in DOMAIN tokenAccounts : tokenAccounts[i].mint = memberSpl} IN
    IF matching = {}
    THEN [found |-> FALSE, balance |-> 0, isMember |-> TRUE]
    ELSE LET balance == tokenAccounts[Min(matching)].uiAmount IN
         [found |-> TRUE, balance |-> balance, isMember |-> balance > memberSplReq]

\* the synchronous part of checkMembership after the RPC answer
checkMembership(tokenAccounts) ==
    LET matching == {i \in DOMAIN tokenAccounts : tokenAccounts[i].mint = memberSpl} IN
    IF matching = {}
    THEN [found |-> FALSE, balance |-> 0, isMember |-> FALSE]
    ELSE LET balance == tokenAccounts[Min(matching)].uiAmount IN
         [found |-> TRUE, balance |-> balance, isMember |-> balance > memberSplReq]

\* variant: the first token-program instruction that decodes as a
\* transferChecked is taken, or the first one when none decodes
findTransferIx_firstDecodable(t) ==
    LET tokenIxs == {i \in DOMAIN t.instructions :
                        t.instructions[i].programId = TOKEN_PROGRAM_ID}
        decodable == {i \in tokenIxs : t.instructions[i].decodes}
    IN  IF tokenIxs = {} THEN 0
        ELSE IF decodable = {} THEN Min(tokenIxs) ELSE Min(decodable)

\* variant: the last token-program instruction is taken
findTransferIx_last(t) ==
    LET tokenIxs == {i \in DOMAIN t.instructions :
                        t.instructions[i].programId = TOKEN_PROGRAM_ID} IN
    IF tokenIxs = {} THEN 0 ELSE Max(tokenIxs)

\* tx.instructions.find(ix => ix.programId is the token program): the index of
\* the first one, 0 for undefined
findTransferIx(t) ==
    LET tokenIxs == {i \in DOMAIN t.instructions :
                        t.instructions[i].programId = TOKEN_PROGRAM_ID} IN
    IF tokenIxs = {} THEN 0 ELSE Min(tokenIxs)

\* variant: destination and mint keys taken in the wrong order
checkTransfer_swappedKeys(transferIx, req) ==
    IF transferIx.decimals # TOKEN_DECIMALS THEN Throw(ErrDecimals)
    ELSE IF transferIx.amount # req.maxAmountRequired THEN Throw(ErrAmount)
    ELSE IF transferIx.mint # req.payTo THEN Throw(ErrDestination)
    ELSE IF transferIx.destination # req.asset THEN Throw(ErrMint)
    ELSE Ok("ok")

\* variant: an amount above the price is accepted
checkTransfer_atLeast(transferIx, req) ==
    IF transferIx.decimals # TOKEN_DECIMALS THEN Throw(ErrDecimals)
    ELSE IF transferIx.amount < req.maxAmountRequired THEN Throw(ErrAmount)
    ELSE IF transferIx.destination # req.payTo THEN Throw(ErrDestination)
    ELSE IF transferIx.mint # req.asset THEN Throw(ErrMint)
    ELSE Ok("ok")

\* the four comparisons of the decoded transferChecked
checkTransfer(transferIx, req) ==
    IF transferIx.decimals # TOKEN_DECIMALS THEN Throw(ErrDecimals)
    ELSE IF transferIx.amount # req.maxAmountRequired THEN Throw(ErrAmount)
    ELSE IF transferIx.destination # req.payTo THEN Throw(ErrDestination)
    ELSE IF transferIx.mint # req.asset THEN Throw(ErrMint)
    ELSE Ok("ok")

\* variant: the entry is looked for, its signature is not
checkFeePayerSignature_entryOnly(t) ==
    LET feePayerSigs == {i \in DOMAIN t.signatures :
                            /\ t.feePayer # Undefined
                            /\ t.signatures[i].publicKey = t.feePayer} IN
    IF feePayerSigs = {} THEN Throw(ErrSignature)
    ELSE Ok(t.feePayer)

\* tx.signatures.find(sig => feePayer && sig.publicKey.equals(feePayer)), then
\* !feePayerSig || !feePayerSig.signature
checkFeePayerSignature(t) ==
    LET feePayerSigs == {i \in DOMAIN t.signatures :
                            /\ t.feePayer # Undefined
                            /\ t.signatures[i].publicKey = t.feePayer} IN
    IF feePayerSigs = {} THEN Throw(ErrSignature)
    ELSE IF t.signatures[Min(feePayerSigs)].signature = Null THEN Throw(ErrSignature)
    ELSE Ok(t.feePayer)

verifyTransaction(t, req) ==
    LET i == findTransferIx(t) IN
    IF i = 0 THEN Throw(ErrNoTransfer)
    \* decodeTransferCheckedInstruction throws on anything but a
    \* transferChecked, so the !parsed branch is never taken
    ELSE IF ~t.instructions[i].decodes THEN Throw(ErrDecodeIx)
    ELSE LET c == checkTransfer(t.instructions[i], req) IN
         IF c.threw THEN c ELSE checkFeePayerSignature(t)

\* variant: a transaction that a request has already sent is not sent again
broadcastTransaction_once(calls, t) ==
    IF \E q \in Requests : \E i \in DOMAIN sent[q] : sent[q][i] = t
    THEN calls
    ELSE Append(calls, t)

\* variant: the transaction is sent, and sent again
broadcastTransaction_twice(calls, t) == Append(Append(calls, t), t)

\* lines 125-129: the call of connection.sendRawTransaction, as the broadcast
\* service sees it; calls are the transactions it was handed so far
broadcastTransaction(calls, t) == Append(calls, t)

(***************************************************************************)
(* verifyAndSettle, one operator per stretch of code between two awaits.   *)
(* Each returns how the stretch ends: "throw" (with the message),          *)
(* "return" (with the value), or "await" (an RPC call was issued), and the *)
(* calls it made.                                                          *)
(***************************************************************************)
End(kind, value, calls) == [end |-> kind, value |-> value, calls |-> calls]

\* variant: the payload fields are looked at before the envelope
verifyAndSettleHeader_payloadFirst(headerValue, requirements) ==
    LET d == decodePaymentHeader(headerValue) IN
    IF d.threw THEN End("throw", d.value, << "decode" >>)
    ELSE IF d.value.json = "object" /\ Falsy(PayloadField(d.value, "txBase64"))
    THEN End("throw", ErrMissingTx, << "decode" >>)
    ELSE IF d.value.json = "object" /\ Falsy(PayloadField(d.value, "reference"))
    THEN End("throw", ErrMissingRef, << "decode" >>)
    ELSE
    LET v == validatePaymentRequirements(d.value, requirements) IN
    IF v.threw THEN End("throw", v.value, << "decode", "validate" >>)
    ELSE IF Falsy(PayloadField(d.value, "txBase64"))
    THEN End("throw", ErrMissingTx, << "decode", "validate" >>)
    ELSE IF Falsy(PayloadField(d.value, "reference"))
    THEN End("throw", ErrMissingRef, << "decode", "validate" >>)
    ELSE End("continue", PayloadField(d.value, "txBase64"), << "decode", "validate" >>)

\* lines 141-146: decode, envelope, payload fields
verifyAndSettleHeader(headerValue, requirements) ==
    LET d == decodePaymentHeader(headerValue) IN
    IF d.threw THEN End("throw", d.value, << "decode" >>)
    ELSE
    LET v == validatePaymentRequirements(d.value, requirements) IN
    IF v.threw THEN End("throw", v.value, << "decode", "validate" >>)
    ELSE IF Falsy(PayloadField(d.value, "txBase64"))
    THEN End("throw", ErrMissingTx, << "decode", "validate" >>)
    ELSE IF Falsy(PayloadField(d.value, "reference"))
    THEN End("throw", ErrMissingRef, << "decode", "validate" >>)
    ELSE End("continue", PayloadField(d.value, "txBase64"), << "decode", "validate" >>)

\* lines 141-157: up to the await of the token-account query
verifyAndSettleStart(headerValue, requirements, built) ==
    LET h == verifyAndSettleHeader(headerValue, requirements) IN
    IF h.end = "throw" THEN h
    ELSE
    LET d == solTransactionFrom(h.value, built)
        calls == h.calls \o << "deserialize" >>
    IN
    IF d.threw THEN End("throw", d.value, calls)
    ELSE IF d.value.feePayer = Undefined THEN End("throw", ErrNoFeePayer, calls)
    ELSE End("await", d.value.feePayer, calls \o << "getParsedTokenAccountsByOwner" >>)

\* variant: a non-member's transaction is sent first and verified afterwards
verifyAndSettleAfterMembership_broadcastFirst(isMember, t, req, serializes) ==
    IF isMember THEN End("return", t.feePayer, << >>)
    ELSE IF ~serializes THEN End("throw", ErrSerialize, << "serialize" >>)
    ELSE End("await", Undefined, << "serialize", "sendRawTransaction", "verifyTransaction" >>)

\* variant: a member is let in only with the fee payer's signature
verifyAndSettleAfterMembership_signedMembers(isMember, t, req, serializes) ==
    LET v == verifyTransaction(t, req)
        g == checkFeePayerSignature(t)
    IN
    IF isMember
    THEN IF g.threw THEN End("throw", g.value, << >>) ELSE End("return", t.feePayer, << >>)
    ELSE IF v.threw THEN End("throw", v.value, << "verifyTransaction" >>)
    ELSE IF ~serializes THEN End("throw", ErrSerialize, << "verifyTransaction", "serialize" >>)
    ELSE End("await", Undefined,
             << "verifyTransaction", "serialize", "sendRawTransaction" >>)

\* variant: the transaction is verified before the membership decision is used
verifyAndSettleAfterMembership_verifyFirst(isMember, t, req, serializes) ==
    LET v == verifyTransaction(t, req) IN
    IF v.threw THEN End("throw", v.value, << "verifyTransaction" >>)
    ELSE IF isMember THEN End("return", t.feePayer, << "verifyTransaction" >>)
    ELSE IF ~serializes THEN End("throw", ErrSerialize, << "verifyTransaction", "serialize" >>)
    ELSE End("await", Undefined,
             << "verifyTransaction", "serialize", "sendRawTransaction" >>)

\* lines 158-170: from the membership decision up to the await of the
\* broadcast; serializes is whether tx.serialize() returns
verifyAndSettleAfterMembership(isMember, t, req, serializes) ==
    IF isMember THEN End("return", t.feePayer, << >>)
    ELSE
    LET v == verifyTransaction(t, req) IN
    IF v.threw THEN End("throw", v.value, << "verifyTransaction" >>)
    ELSE IF ~serializes THEN End("throw", ErrSerialize, << "verifyTransaction", "serialize" >>)
    ELSE End("await", Undefined,
             << "verifyTransaction", "serialize", "sendRawTransaction" >>)

(***************************************************************************)
(* exports.weather: the responses.                                         *)
(***************************************************************************)
\* lines 185-186: Access-Control-Allow-Origin and Access-Control-Allow-Headers
CorsHeaders == [allowOrigin |-> "*", allowHeaders |-> {"Content-Type", "x-payment"}]
NoCorsHeaders == [allowOrigin |-> "none", allowHeaders |-> {}]

\* the X-PAYMENT-RESPONSE header: the receipt it is the base64 JSON of
NoReceipt == [txHash |-> "none", settledAt |-> "none"]

\* variant: the failed query is taken for "not a member" and the payment path
\* goes on
verifyAndSettleBalanceThrew_swallowed(t, req) ==
    verifyAndSettleAfterMembership(FALSE, t, req, TRUE)

\* line 157: checkMembership has no try/catch (lines 57-72) and neither has its
\* await, so the query's error leaves verifyAndSettle as it is
verifyAndSettleBalanceThrew(t, req) == End("throw", ErrRpc, << >>)

NoResponse == [status |-> 0, body |-> "none", error |-> "none", receipt |-> NoReceipt,
               cors |-> NoCorsHeaders]

Respond(status, body, error, receipt) ==
    [status |-> status, body |-> body, error |-> error, receipt |-> receipt,
     cors |-> CorsHeaders]

\* lines 229-248: what the handler answers when verifyAndSettle has ended
\* variant: a thrown error is answered with the message of the last line
weatherAnswer_genericError(e) ==
    IF e.end = "throw"
    THEN Respond(402, "paymentRequirements", "Settlement failed", NoReceipt)
    ELSE IF ~Falsy(e.value)
    THEN Respond(200, "temperatureF", "none",
                 [txHash |-> e.value, settledAt |-> "toISOString"])
    ELSE Respond(500, "error", "Settlement failed", NoReceipt)

\* variant: a thrown error is answered as a server error
weatherAnswer_throwIs500(e) ==
    IF e.end = "throw"
    THEN Respond(500, "error", e.value, NoReceipt)
    ELSE IF ~Falsy(e.value)
    THEN Respond(200, "temperatureF", "none",
                 [txHash |-> e.value, settledAt |-> "toISOString"])
    ELSE Respond(500, "error", "Settlement failed", NoReceipt)

\* variant: the catch serves the resource
weatherAnswer_failOpen(e) ==
    IF e.end = "throw"
    THEN Respond(200, "temperatureF", e.value, NoReceipt)
    ELSE IF ~Falsy(e.value)
    THEN Respond(200, "temperatureF", "none",
                 [txHash |-> e.value, settledAt |-> "toISOString"])
    ELSE Respond(500, "error", "Settlement failed", NoReceipt)

\* variant: the receipt header is not set
weatherAnswer_noReceipt(e) ==
    IF e.end = "throw"
    THEN Respond(402, "paymentRequirements", e.value, NoReceipt)
    ELSE IF ~Falsy(e.value)
    THEN Respond(200, "temperatureF", "none", NoReceipt)
    ELSE Respond(500, "error", "Settlement failed", NoReceipt)

weatherAnswer(e) ==
    IF e.end = "throw"
    THEN Respond(402, "paymentRequirements", e.value, NoReceipt)
    ELSE IF ~Falsy(e.value)
    THEN Respond(200, "temperatureF", "none",
                 [txHash |-> e.value, settledAt |-> "toISOString"])
    ELSE Respond(500, "error", "Settlement failed", NoReceipt)

\* variant: only /weather is served
weatherPlain_weatherOnly(method, path) ==
    IF method = "OPTIONS" THEN Respond(204, "empty", "none", NoReceipt)
    ELSE IF method # "GET" \/ path # "/weather"
         THEN Respond(404, "error", "Not found", NoReceipt)
         ELSE Respond(402, "paymentRequirements", "none", NoReceipt)

\* variant: the method and path test comes before the preflight test
weatherPlain_routeFirst(method, path) ==
    IF (method # "GET" /\ method # "OPTIONS") \/ (path # "/" /\ path # "/weather")
    THEN Respond(404, "error", "Not found", NoReceipt)
    ELSE IF method = "OPTIONS" THEN Respond(204, "empty", "none", NoReceipt)
         ELSE Respond(402, "paymentRequirements", "none", NoReceipt)

\* lines 185-227: the answers given without reading the payment header's
\* content: preflight, wrong method or path, and the challenge
weatherPlain(method, path) ==
    IF method = "OPTIONS" THEN Respond(204, "empty", "none", NoReceipt)
    ELSE IF method # "GET" \/ (path # "/" /\ path # "/weather")
         THEN Respond(404, "error", "Not found", NoReceipt)
         ELSE Respond(402, "paymentRequirements", "none", NoReceipt)

NoCodec == [stage |-> "none", payload |-> << >>, wire |-> << >>, decoded |-> << >>]

\* a value of the page that is null or set: the empty tuple, or the value in
\* a tuple
None == << >>
Some(v) == << v >>

NoEngine == [stage |-> "none", requirements |-> None, header |-> NoHeader, tx |-> NoTx,
             isMember |-> FALSE, e |-> End("none", "none", << >>)]

\* part_001:20-31: the useState initial values, without statusMessage and
\* errorMessage, which are displayed and never read; with the token accounts
\* of the wallet's key on the chain, the handlers in flight (tasks), the
\* number of crypto.randomUUID() calls so far (uuids), the payload of the
\* X-PAYMENT header sent last (header) and the references of the
\* transactions the server rejected
NoClient == [connected |-> FALSE, accounts |-> << >>, currentStep |-> "idle",
             paymentRequirements |-> None, membershipStatus |-> None,
             signedTransaction |-> None, paymentReference |-> None,
             weatherData |-> None,
             tasks |-> << >>, uuids |-> 0, header |-> None, rejected |-> {}]

NoAnswer == [state |-> "none", value |-> "none"]
NoOutcome == [kind |-> "none", value |-> "none"]
NoMembership == [found |-> FALSE, balance |-> 0, isMember |-> FALSE, asked |-> FALSE,
                 threw |-> FALSE]

(***************************************************************************)
(* The state machine.                                                      *)
(***************************************************************************)
Init ==
    /\ pc = [r \in Requests |-> "idle"]
    /\ httpReq = [r \in Requests |-> [method |-> "none", path |-> "none", header |-> NoHeader]]
    /\ tx = [r \in Requests |-> NoTx]
    /\ membership = [r \in Requests |-> NoMembership]
    /\ trace = [r \in Requests |-> << >>]
    /\ sent = [r \in Requests |-> << >>]
    /\ answer = [r \in Requests |-> NoAnswer]
    /\ outcome = [r \in Requests |-> NoOutcome]
    /\ response = [r \in Requests |-> NoResponse]
    /\ warm = FALSE
    /\ codec = NoCodec
    /\ engine = NoEngine
    /\ client = NoClient

\* how verifyAndSettle ended, in the words of the specification
OutcomeOf(e, site) ==
    IF e.end = "throw" THEN [kind |-> "Rejected", value |-> e.value]
    ELSE [kind |-> site, value |-> e.value]

\* the request ends with verifyAndSettle ending as e
\* variant: the result is computed and neither returned nor answered
Finish_pending(r, e, site) ==
    /\ pc' = [pc EXCEPT ![r] = "pending"]
    /\ UNCHANGED <<outcome, response>>

\* variant: res is held in a module-level binding, which the latest request
\* in flight has overwritten
Finish_sharedRes(r, e, site) ==
    /\ pc' = [pc EXCEPT ![r] = "done"]
    /\ outcome' = [outcome EXCEPT ![r] = OutcomeOf(e, site)]
    /\ response' = [response EXCEPT ![Max({r} \cup {q \in Requests : pc[q] # "idle"})] =
                        weatherAnswer(e)]

Finish(r, e, site) ==
    /\ pc' = [pc EXCEPT ![r] = "done"]
    /\ outcome' = [outcome EXCEPT ![r] = OutcomeOf(e, site)]
    /\ response' = [response EXCEPT ![r] = weatherAnswer(e)]

\* a function instance serves one request at a time, and a request goes to
\* the first idle slot
InstanceFree(r) ==
    /\ \A q \in Requests : pc[q] = "idle"
    /\ r = Min({q \in Requests : pc[q] = "idle"})

\* lines 183-195 and 224-227: the requests answered without verifyAndSettle
ReceivePlain(r) ==
    /\ pc[r] = "idle" /\ InstanceFree(r)
    /\ \E method \in Methods, path \in Paths, header \in HeaderValues :
        /\ \/ method # "GET"
           \/ path \notin {"/", "/weather"}
           \/ header \in {NoHeader, EmptyHeader}
        /\ httpReq' = [httpReq EXCEPT ![r] =
                          [method |-> method, path |-> path, header |-> header]]
        /\ response' = [response EXCEPT ![r] = weatherPlain(method, path)]
    /\ pc' = [pc EXCEPT ![r] = "done"]
    /\ UNCHANGED <<tx, membership, trace, sent, answer, outcome, warm, codec, engine, client>>

\* lines 224-229 and 141-157: a GET with a payment header, up to the
\* response or to the await of the token-account query
ReceivePayment(r) ==
    /\ pc[r] = "idle" /\ InstanceFree(r)
    /\ \E path \in {"/", "/weather"}, header \in HeaderValues \ {NoHeader, EmptyHeader} :
        LET h == verifyAndSettleHeader(header, paymentRequirements) IN
        \E built \in (IF h.end = "continue" /\ h.value = "wellformed"
                      THEN Transactions ELSE {NoTx}) :
            LET e == verifyAndSettleStart(header, paymentRequirements, built) IN
            /\ httpReq' = [httpReq EXCEPT ![r] =
                              [method |-> "GET", path |-> path, header |-> header]]
            /\ tx' = [tx EXCEPT ![r] = built]
            /\ trace' = [trace EXCEPT ![r] = e.calls]
            /\ IF e.end = "await"
               THEN /\ pc' = [pc EXCEPT ![r] = "awaitBalance"]
                    /\ UNCHANGED <<outcome, response>>
               ELSE Finish(r, e, "none")
    /\ UNCHANGED <<membership, sent, answer, warm, codec, engine, client>>

\* lines 59-72 and 158-170: the token-account query answers
BalanceReply(r) ==
    /\ pc[r] = "awaitBalance"
    /\ \E m \in {checkMembership(tokenAccounts) : tokenAccounts \in TokenAccountLists} :
        LET req == paymentRequirements.accepts[1]
            reachesSerialize ==
                verifyAndSettleAfterMembership(m.isMember, tx[r], req, TRUE).end = "await"
        IN
        \E serializes \in (IF reachesSerialize THEN BOOLEAN ELSE {TRUE}) :
        LET e == verifyAndSettleAfterMembership(m.isMember, tx[r], req, serializes) IN
        /\ membership' = [membership EXCEPT ![r] =
                             [found |-> m.found, balance |-> m.balance,
                              isMember |-> m.isMember, asked |-> TRUE,
                              threw |-> FALSE]]
        /\ trace' = [trace EXCEPT ![r] = @ \o e.calls]
        /\ IF e.end = "await"
           THEN /\ pc' = [pc EXCEPT ![r] = "awaitBroadcast"]
                /\ sent' = [sent EXCEPT ![r] = broadcastTransaction(@, tx[r])]
                /\ UNCHANGED <<outcome, response>>
           ELSE /\ Finish(r, e, "MemberGranted")
                /\ UNCHANGED sent
    /\ UNCHANGED <<httpReq, tx, answer, warm, codec, engine, client>>

\* line 59: the token-account query throws
BalanceFail(r) ==
    /\ pc[r] = "awaitBalance"
    /\ LET e == verifyAndSettleBalanceThrew(tx[r], paymentRequirements.accepts[1]) IN
        /\ membership' = [membership EXCEPT ![r].threw = TRUE]
        /\ trace' = [trace EXCEPT ![r] = @ \o e.calls]
        /\ IF e.end = "await"
           THEN /\ pc' = [pc EXCEPT ![r] = "awaitBroadcast"]
                /\ sent' = [sent EXCEPT ![r] = broadcastTransaction(@, tx[r])]
                /\ UNCHANGED <<outcome, response>>
           ELSE /\ Finish(r, e, "none")
                /\ UNCHANGED sent
    /\ UNCHANGED <<httpReq, tx, answer, warm, codec, engine, client>>

\* lines 170-173: sendRawTransaction returns the signature
BroadcastReply(r) ==
    /\ pc[r] = "awaitBroadcast"
    /\ \E sig \in TxHashes :
        /\ answer' = [answer EXCEPT ![r] = [state |-> "returned", value |-> sig]]
        /\ Finish(r, End("return", sig, << >>), "Settled")
    /\ UNCHANGED <<httpReq, tx, membership, trace, sent, warm, codec, engine, client>>

\* line 126: sendRawTransaction throws
BroadcastFail(r) ==
    /\ pc[r] = "awaitBroadcast"
    /\ \E message \in SendErrors :
        /\ answer' = [answer EXCEPT ![r] = [state |-> "threw", value |-> message]]
        /\ Finish(r, End("throw", message, << >>), "none")
    /\ UNCHANGED <<httpReq, tx, membership, trace, sent, warm, codec, engine, client>>

\* variant: the transactions sent are kept in a module-level list
Close_keepsSent(r) ==
    /\ pc[r] = "done"
    /\ pc' = [pc EXCEPT ![r] = "idle"]
    /\ httpReq' = [httpReq EXCEPT ![r] = [method |-> "none", path |-> "none", header |-> NoHeader]]
    /\ tx' = [tx EXCEPT ![r] = NoTx]
    /\ membership' = [membership EXCEPT ![r] = NoMembership]
    /\ trace' = [trace EXCEPT ![r] = << >>]
    /\ answer' = [answer EXCEPT ![r] = NoAnswer]
    /\ outcome' = [outcome EXCEPT ![r] = NoOutcome]
    /\ response' = [response EXCEPT ![r] = NoResponse]
    /\ warm' = TRUE
    /\ UNCHANGED <<codec, engine, client>>
    /\ UNCHANGED sent

\* the response is out and the evaluation's locals are gone: nothing is kept
\* from one request to the next
Close(r) ==
    /\ pc[r] = "done"
    /\ pc' = [pc EXCEPT ![r] = "idle"]
    /\ httpReq' = [httpReq EXCEPT ![r] = [method |-> "none", path |-> "none", header |-> NoHeader]]
    /\ tx' = [tx EXCEPT ![r] = NoTx]
    /\ membership' = [membership EXCEPT ![r] = NoMembership]
    /\ trace' = [trace EXCEPT ![r] = << >>]
    /\ sent' = [sent EXCEPT ![r] = << >>]
    /\ answer' = [answer EXCEPT ![r] = NoAnswer]
    /\ outcome' = [outcome EXCEPT ![r] = NoOutcome]
    /\ response' = [response EXCEPT ![r] = NoResponse]
    /\ warm' = TRUE
    /\ UNCHANGED <<codec, engine, client>>

Next ==
    \/ \E r \in Requests : ReceivePlain(r)
    \/ \E r \in Requests : ReceivePayment(r)
    \/ \E r \in Requests : BalanceReply(r)
    \/ \E r \in Requests : BalanceFail(r)
    \/ \E r \in Requests : BroadcastReply(r)
    \/ \E r \in Requests : BroadcastFail(r)
    \/ \E r \in Requests : Close(r)

Spec == Init /\ [][Next]_vars

(***************************************************************************)
(* Vocabulary of the properties.                                           *)
(***************************************************************************)
Count(seq, x) == Cardinality({i \in DOMAIN seq : seq[i] = x})

Called(r, call) == Count(trace[r], call) > 0

\* the evaluation of r made no network call
NoNetworkCall(r) ==
    /\ ~Called(r, "getParsedTokenAccountsByOwner")
    /\ ~Called(r, "sendRawTransaction")
    /\ sent[r] = << >>
    /\ ~membership[r].asked

\* the membership check of r answered: not a member
NonMember(r) == membership[r].asked /\ ~membership[r].isMember

Rejected(r, reason) == outcome[r] = [kind |-> "Rejected", value |-> reason]

TokenIxs(t) ==
    {i \in DOMAIN t.instructions : t.instructions[i].programId = TOKEN_PROGRAM_ID}

\* t has a transfer instruction: its first token-program instruction decodes
\* as a transferChecked
HasTransfer(t) ==
    /\ TokenIxs(t) # {}
    /\ t.instructions[Min(TokenIxs(t))].decodes

Transfer(t) == t.instructions[Min(TokenIxs(t))]

\* the fields in which the transfer instruction differs from the requirement
Differing(t) ==
    LET ix == Transfer(t)
        req == paymentRequirements.accepts[1]
    IN  {f \in {"amount", "destination", "mint", "decimals"} :
            \/ f = "amount" /\ ix.amount # req.maxAmountRequired
            \/ f = "destination" /\ ix.destination # req.payTo
            \/ f = "mint" /\ ix.mint # req.asset
            \/ f = "decimals" /\ ix.decimals # 6}

\* the fee payer has a non-empty signature among the signatures of t
FeePayerSigned(t) ==
    /\ t.feePayer # Undefined
    /\ \E i \in DOMAIN t.signatures :
        /\ t.signatures[i].publicKey = t.feePayer
        /\ t.signatures[i].signature # Null

ReasonOfField(f) ==
    CASE f = "amount" -> ErrAmount
      [] f = "destination" -> ErrDestination
      [] f = "mint" -> ErrMint
      [] f = "decimals" -> ErrDecimals

\* the envelope of the header of r, as the code reads it, differs from the
\* published requirement
EnvelopeDiffers(h) ==
    \/ h.json = "primitive"
    \/ /\ h.json = "object"
       /\ \/ h.x402Version # paymentRequirements.x402Version
          \/ h.scheme # paymentRequirements.accepts[1].scheme
          \/ h.network # paymentRequirements.accepts[1].network

EnvelopeMatches(h) == h.json = "object" /\ ~EnvelopeDiffers(h)

(***************************************************************************)
(* C1.  Whenever checkMembership classifies the fee payer as a member, the *)
(* evaluation has ended in MemberGranted carrying the fee payer,           *)
(* verifyTransaction was not called, and the broadcast service received no *)
(* call.                                                                   *)
(***************************************************************************)
C1_MemberShortCircuit ==
    \A r \in Requests :
        (membership[r].asked /\ membership[r].isMember) =>
            /\ pc[r] = "done"
            /\ outcome[r] = [kind |-> "MemberGranted", value |-> tx[r].feePayer]
            /\ ~Called(r, "verifyTransaction")
            /\ ~Called(r, "sendRawTransaction")
            /\ sent[r] = << >>

\* a member is granted access with a transaction verifyTransaction rejects
C1_Witness ==
    \E r \in Requests :
        /\ membership[r].asked /\ membership[r].isMember
        /\ outcome[r].kind = "MemberGranted"
        /\ verifyTransaction(tx[r], paymentRequirements.accepts[1]).threw

(***************************************************************************)
(* C2.  For a non-member whose transfer instruction equals the requirement *)
(* in amount, destination, mint and decimals and whose fee-payer signature *)
(* is present, validation passes, and when sendRawTransaction returns a    *)
(* hash the evaluation ends in Settled with that hash.                     *)
(***************************************************************************)
C2_ValidPaymentSettles ==
    \A r \in Requests :
        (/\ NonMember(r)
         /\ HasTransfer(tx[r]) /\ Differing(tx[r]) = {}
         /\ FeePayerSigned(tx[r])) =>
            /\ Called(r, "verifyTransaction")
            /\ Called(r, "serialize")
            /\ outcome[r].kind = "Rejected" => outcome[r].value \in {ErrSerialize} \cup SendErrors
            /\ answer[r].state = "returned" =>
                /\ pc[r] = "done"
                /\ outcome[r] = [kind |-> "Settled", value |-> answer[r].value]
                /\ sent[r] = << tx[r] >>

C2_Witness ==
    \E r \in Requests :
        /\ NonMember(r)
        /\ HasTransfer(tx[r]) /\ Differing(tx[r]) = {}
        /\ FeePayerSigned(tx[r])
        /\ outcome[r] = [kind |-> "Settled", value |-> "abc123"]

(***************************************************************************)
(* C3.  For a non-member, a transfer instruction that differs from the     *)
(* requirement in exactly one of amount, destination, mint, decimals       *)
(* (an amount above the price included) is rejected with the reason of     *)
(* that field, the four reasons are pairwise distinct, and the broadcast   *)
(* service is not called.                                                  *)
(***************************************************************************)
C3_OneFieldOffRejected ==
    /\ Cardinality({ReasonOfField(f) : f \in {"amount", "destination", "mint", "decimals"}}) = 4
    /\ \A r \in Requests :
        (/\ NonMember(r)
         /\ HasTransfer(tx[r])
         /\ Cardinality(Differing(tx[r])) = 1) =>
            /\ pc[r] = "done"
            /\ \E f \in Differing(tx[r]) : Rejected(r, ReasonOfField(f))
            /\ ~Called(r, "sendRawTransaction")
            /\ sent[r] = << >>
            /\ response[r].status = 402

\* an overpayment by one unit, everything else as required and signed
C3_Witness ==
    \E r \in Requests :
        /\ NonMember(r)
        /\ HasTransfer(tx[r])
        /\ Differing(tx[r]) = {"amount"}
        /\ Transfer(tx[r]).amount > PRICE
        /\ FeePayerSigned(tx[r])
        /\ Rejected(r, ErrAmount)

(***************************************************************************)
(* C4.  Every transaction handed to the broadcast service carries a        *)
(* non-empty signature of its fee payer; a non-member's transaction        *)
(* without it is rejected and not broadcast, with the reason "fee payer    *)
(* signature missing" when its transfer instruction passes the checks      *)
(* made before the signature check.                                        *)
(***************************************************************************)
C4_BroadcastOnlySigned ==
    \A r \in Requests :
        /\ \A i \in DOMAIN sent[r] : FeePayerSigned(sent[r][i])
        /\ (NonMember(r) /\ ~FeePayerSigned(tx[r])) =>
            /\ pc[r] = "done"
            /\ outcome[r].kind = "Rejected"
            /\ sent[r] = << >>
            /\ ~Called(r, "sendRawTransaction")
            /\ (HasTransfer(tx[r]) /\ Differing(tx[r]) = {}) => Rejected(r, ErrSignature)

\* a payment right in every field whose fee-payer entry holds a null signature
C4_Witness ==
    \E r \in Requests :
        /\ NonMember(r)
        /\ HasTransfer(tx[r]) /\ Differing(tx[r]) = {}
        /\ tx[r].signatures # << >>
        /\ ~FeePayerSigned(tx[r])
        /\ Rejected(r, ErrSignature)

C6_InclusiveThreshold ==
    \A r \in Requests :
        (/\ pc[r] = "done"
         /\ membership[r].asked
         /\ membership[r].found /\ membership[r].balance >= memberSplReq) =>
            outcome[r].kind = "MemberGranted"

(***************************************************************************)
(* C7.  If the x402Version, scheme or network of the decoded header        *)
(* differs from the published requirement, the evaluation is rejected with *)
(* the unsupported version / scheme / network reason, and neither the      *)
(* token-account query nor the broadcast service is called.                *)
(***************************************************************************)
C7_EnvelopeMismatchRejected ==
    \A r \in Requests :
        (trace[r] # << >> /\ EnvelopeDiffers(httpReq[r].header)) =>
            /\ pc[r] = "done"
            /\ Rejected(r, ErrUnsupported)
            /\ response[r].status = 402
            /\ NoNetworkCall(r)
            /\ tx[r] = NoTx

\* only the network differs, and the payload is complete
C7_Witness ==
    \E r \in Requests :
        LET h == httpReq[r].header IN
        /\ h.json = "object"
        /\ h.x402Version = paymentRequirements.x402Version
        /\ h.scheme = paymentRequirements.accepts[1].scheme
        /\ h.network # paymentRequirements.accepts[1].network
        /\ h.payload.kind = "object"
        /\ h.payload.txBase64 = "wellformed"
        /\ h.payload.reference = "ref"
        /\ Rejected(r, ErrUnsupported)

(***************************************************************************)
(* C8.  For every header value, those that decode to JSON null or to a     *)
(* non-object included: if decoding fails or payload.txBase64 or           *)
(* payload.reference is absent, the answer is a 402 carrying a             *)
(* MalformedHeader reason (decode failure, missing txBase64, missing       *)
(* reference), and no network call is made.                                *)
(***************************************************************************)
MalformedHeaderReasons == {ErrDecode, ErrMissingTx, ErrMissingRef}

C8_MalformedHeaderRejected ==
    \A r \in Requests :
        LET h == httpReq[r].header IN
        (/\ trace[r] # << >>
         /\ \/ h.json \in {"invalid", "null", "primitive"}
            \/ Falsy(PayloadField(h, "txBase64"))
            \/ Falsy(PayloadField(h, "reference"))) =>
            /\ pc[r] = "done"
            /\ response[r].status = 402
            /\ outcome[r].kind = "Rejected"
            /\ outcome[r].value \in MalformedHeaderReasons
            /\ NoNetworkCall(r)

(***************************************************************************)
(* C9.  When the evaluation reaches the deserialization and txBase64 does  *)
(* not deserialize into a transaction, it is rejected with the             *)
(* deserializer's error as the reason, and neither the token-account query *)
(* nor the broadcast service is called.                                    *)
(***************************************************************************)
DeserializeReasons == {ErrTxFrom, ErrBufferFrom}

C9_BadEncodingRejected ==
    \A r \in Requests :
        LET h == httpReq[r].header IN
        (/\ trace[r] # << >>
         /\ EnvelopeMatches(h)
         /\ PayloadField(h, "txBase64") \in {"garbage", "nonstring"}
         /\ ~Falsy(PayloadField(h, "reference"))) =>
            /\ pc[r] = "done"
            /\ outcome[r].kind = "Rejected"
            /\ outcome[r].value \in DeserializeReasons
            /\ response[r].status = 402
            /\ NoNetworkCall(r)

C9_Witness ==
    \E r \in Requests :
        /\ EnvelopeMatches(httpReq[r].header)
        /\ PayloadField(httpReq[r].header, "txBase64") = "garbage"
        /\ Called(r, "deserialize")
        /\ Rejected(r, ErrTxFrom)

(***************************************************************************)
(* C10.  For a non-member, validation passes only when the transaction     *)
(* holds exactly one token-program instruction that decodes as a           *)
(* transferChecked; with no token-program instruction the evaluation is    *)
(* rejected with the "no transfer instruction" reason and nothing is       *)
(* broadcast.                                                              *)
(***************************************************************************)
TransferCheckedCount(t) ==
    Cardinality({i \in TokenIxs(t) : t.instructions[i].decodes})

C10_NoTransferRejected(r) ==
    (NonMember(r) /\ TokenIxs(tx[r]) = {}) =>
        /\ pc[r] = "done"
        /\ Rejected(r, ErrNoTransfer)
        /\ sent[r] = << >>
        /\ ~Called(r, "sendRawTransaction")

C10_ExactlyOneTransfer ==
    \A r \in Requests :
        /\ Called(r, "serialize") => TransferCheckedCount(tx[r]) = 1
        /\ C10_NoTransferRejected(r)

(***************************************************************************)
(* C10, amended.  For a non-member, validation passes only when the        *)
(* transaction holds at least one token-program instruction and the first  *)
(* of them decodes as a transferChecked; token-program instructions after  *)
(* the first are not looked at.  With no token-program instruction the     *)
(* evaluation is rejected with the "no transfer instruction" reason and    *)
(* nothing is broadcast.                                                   *)
(***************************************************************************)
C10_FirstTokenIxDecides ==
    \A r \in Requests :
        /\ Called(r, "serialize") =>
            /\ NonMember(r)
            /\ HasTransfer(tx[r])
            /\ Differing(tx[r]) = {}
        /\ C10_NoTransferRejected(r)

\* validation passed on a transaction with two transferChecked instructions,
\* the second one paying somebody else
C10_Witness ==
    \E r \in Requests :
        /\ Called(r, "serialize")
        /\ TransferCheckedCount(tx[r]) = 2
        /\ tx[r].instructions[2].destination # MERCHANT_TOKEN_ACCOUNT

(***************************************************************************)
(* C11.  Within one evaluation sendRawTransaction is called at most once:  *)
(* exactly once when the evaluation ends in Settled, and not at all when   *)
(* it ends in MemberGranted or in a Rejected that was produced before the  *)
(* broadcast service answered.                                             *)
(***************************************************************************)
C11_BroadcastAtMostOnce ==
    \A r \in Requests :
        /\ Len(sent[r]) <= 1
        /\ Count(trace[r], "sendRawTransaction") = Len(sent[r])
        /\ outcome[r].kind = "Settled" => Len(sent[r]) = 1
        /\ outcome[r].kind = "MemberGranted" => Len(sent[r]) = 0
        /\ (outcome[r].kind = "Rejected" /\ answer[r] = NoAnswer) => Len(sent[r]) = 0

\* a settled evaluation, with its one broadcast
C11_Witness ==
    \E r \in Requests :
        /\ outcome[r].kind = "Settled"
        /\ sent[r] = <<tx[r]>>

(***************************************************************************)
(* C12.  When sendRawTransaction throws, the evaluation ends in Rejected   *)
(* with the message of the thrown error, the handler answers 402 with that *)
(* message in the error field of the body, and the transaction is not sent *)
(* a second time in that request.                                          *)
(***************************************************************************)
C12_BroadcastFailureRejected ==
    \A r \in Requests :
        answer[r].state = "threw" =>
            /\ pc[r] = "done"
            /\ Rejected(r, answer[r].value)
            /\ response[r] = Respond(402, "paymentRequirements", answer[r].value, NoReceipt)
            /\ Len(sent[r]) = 1
            /\ Count(trace[r], "sendRawTransaction") = 1

\* the broadcast failed with the second of the network's messages
C12_Witness ==
    \E r \in Requests :
        /\ answer[r] = [state |-> "threw", value |-> ErrBlockhash]
        /\ response[r].status = 402
        /\ response[r].error = ErrBlockhash

(***************************************************************************)
(* C13.  The evaluation asks for the token accounts at most once.  When    *)
(* that query throws, the evaluation ends in Rejected and is answered 402, *)
(* the query is not repeated and sendRawTransaction is not called.         *)
(***************************************************************************)
C13_BalanceFailureRejected ==
    \A r \in Requests :
        /\ Count(trace[r], "getParsedTokenAccountsByOwner") <= 1
        /\ membership[r].threw =>
            /\ pc[r] = "done"
            /\ outcome[r].kind = "Rejected"
            /\ response[r].status = 402
            /\ response[r].body = "paymentRequirements"
            /\ Count(trace[r], "getParsedTokenAccountsByOwner") = 1
            /\ ~Called(r, "sendRawTransaction")
            /\ sent[r] = << >>
            /\ answer[r] = NoAnswer

\* the query failed for a transaction that verifyTransaction would accept
C13_Witness ==
    \E r \in Requests :
        /\ membership[r].threw
        /\ outcome[r].kind = "Rejected"
        /\ ~verifyTransaction(tx[r], paymentRequirements.accepts[1]).threw

\* a GET on a served path without a payment header
Unpaid(r) ==
    /\ pc[r] = "done"
    /\ httpReq[r].method = "GET"
    /\ httpReq[r].path \in {"/", "/weather"}
    /\ httpReq[r].header = NoHeader

(***************************************************************************)
(* C14.  A GET on /weather or / without an X-PAYMENT header is answered    *)
(* 402 with the payment requirements as the body and no error field, the   *)
(* same answer for every such request: scheme "exact", the configured      *)
(* network, asset and payTo, maxAmountRequired 10000.  No token-account    *)
(* query and no broadcast is made for it.                                  *)
(***************************************************************************)
C14_UnpaidChallenged ==
    \A r \in Requests :
        Unpaid(r) =>
            /\ response[r] = Respond(402, "paymentRequirements", "none", NoReceipt)
            /\ paymentRequirements.accepts[1].scheme = "exact"
            /\ paymentRequirements.accepts[1].network = "solana-mainnet-beta"
            /\ paymentRequirements.accepts[1].asset = USDC_MINT
            /\ paymentRequirements.accepts[1].payTo = MERCHANT_TOKEN_ACCOUNT
            /\ paymentRequirements.accepts[1].maxAmountRequired = PRICE
            /\ trace[r] = << >>
            /\ NoNetworkCall(r)
            /\ outcome[r] = NoOutcome

\* the challenge on the root path
C14_Witness ==
    \E r \in Requests :
        /\ Unpaid(r)
        /\ httpReq[r].path = "/"
        /\ response[r].status = 402

\* a GET on a served path that carries a payment header: verifyAndSettle ran
Paid(r) ==
    /\ pc[r] = "done"
    /\ httpReq[r].method = "GET"
    /\ httpReq[r].path \in {"/", "/weather"}
    /\ httpReq[r].header \notin {NoHeader, EmptyHeader}

\* sendRawTransaction returned an empty hash
EmptyHash(r) == answer[r].state = "returned" /\ Falsy(answer[r].value)

\* the request did not obtain the resource by right: the evaluation was
\* rejected, or the broadcast returned no hash
Failed(r) == Paid(r) /\ (outcome[r].kind = "Rejected" \/ EmptyHash(r))

(***************************************************************************)
(* C15, as claimed.  Every failure of a GET that carries an X-PAYMENT      *)
(* header, the broadcast that returns an empty hash included, is answered  *)
(* 402 with the payment requirements and an error string as the body.      *)
(***************************************************************************)
C15_EveryFailure402 ==
    \A r \in Requests :
        Failed(r) =>
            /\ response[r].status = 402
            /\ response[r].body = "paymentRequirements"
            /\ response[r].error # "none"

(***************************************************************************)
(* C15, amended.  Every failure that ends the evaluation with an error     *)
(* (header, envelope, payload, deserialization, token-account query,       *)
(* validation, serialization, broadcast) is answered 402 with the payment  *)
(* requirements and the error's message as the body; a broadcast that      *)
(* returns an empty hash is answered 500 with the error "Settlement        *)
(* failed" and no payment requirements.  No failure has another status.    *)
(***************************************************************************)
C15_FailuresAnswered ==
    \A r \in Requests :
        Failed(r) =>
            IF EmptyHash(r)
            THEN response[r] = Respond(500, "error", "Settlement failed", NoReceipt)
            ELSE /\ outcome[r].value # "none"
                 /\ response[r] =
                        Respond(402, "paymentRequirements", outcome[r].value, NoReceipt)

\* the broadcast returned an empty hash and the request was answered 500
C15_Witness ==
    \E r \in Requests :
        /\ Failed(r)
        /\ EmptyHash(r)
        /\ response[r].status = 500

(***************************************************************************)
(* C16.  When the evaluation ends in Settled with a transaction hash h,    *)
(* the handler answers 200 with the body {temperatureF} and a receipt in   *)
(* the X-PAYMENT-RESPONSE header whose txHash is h and which carries a     *)
(* settledAt timestamp.                                                    *)
(***************************************************************************)
C16_SettledAnswered ==
    \A r \in Requests :
        (outcome[r].kind = "Settled" /\ ~Falsy(outcome[r].value)) =>
            /\ answer[r] = [state |-> "returned", value |-> outcome[r].value]
            /\ response[r].status = 200
            /\ response[r].body = "temperatureF"
            /\ response[r].error = "none"
            /\ response[r].receipt.txHash = outcome[r].value
            /\ response[r].receipt.settledAt = "toISOString"

\* a settled payment and its receipt
C16_Witness ==
    \E r \in Requests :
        /\ outcome[r] = [kind |-> "Settled", value |-> "abc123"]
        /\ response[r].receipt.txHash = "abc123"
        /\ response[r].status = 200

(***************************************************************************)
(* C17, as claimed.  When the evaluation ends in MemberGranted the handler *)
(* answers 200 with the resource and a receipt that carries a memberAccess *)
(* flag in place of a transaction hash; the fee payer's key is never given *)
(* as the receipt's txHash.                                                *)
(***************************************************************************)
C17_MemberReceipt ==
    \A r \in Requests :
        outcome[r].kind = "MemberGranted" =>
            /\ response[r].status = 200
            /\ response[r].body = "temperatureF"
            /\ "memberAccess" \in DOMAIN response[r].receipt
            /\ response[r].receipt.txHash # tx[r].feePayer

\* a request that verifyAndSettle was not called for
Untouched(r) ==
    /\ trace[r] = << >>
    /\ NoNetworkCall(r)
    /\ outcome[r] = NoOutcome
    /\ tx[r] = NoTx

C19_RequirementsCarryExtra ==
    \A r \in Requests :
        response[r].body = "paymentRequirements" =>
            /\ paymentRequirements.x402Version = "num:1"
            /\ Len(paymentRequirements.accepts) >= 1
            /\ paymentRequirements.accepts[1].scheme = "exact"
            /\ "extra" \in DOMAIN paymentRequirements.accepts[1]

\* nothing an evaluation read or wrote is left
Pristine ==
    /\ httpReq = [r \in Requests |-> [method |-> "none", path |-> "none", header |-> NoHeader]]
    /\ tx = [r \in Requests |-> NoTx]
    /\ membership = [r \in Requests |-> NoMembership]
    /\ trace = [r \in Requests |-> << >>]
    /\ sent = [r \in Requests |-> << >>]
    /\ answer = [r \in Requests |-> NoAnswer]
    /\ outcome = [r \in Requests |-> NoOutcome]
    /\ response = [r \in Requests |-> NoResponse]

(***************************************************************************)
(* C20.  The engine keeps no state between invocations: when an instance   *)
(* that has answered requests before is idle again, everything an          *)
(* evaluation read or wrote is as on a fresh instance, so the next request *)
(* is evaluated from the state a fresh server evaluates it from and the    *)
(* outcomes open to it, for given header, requirements, configuration and  *)
(* service answers, are those of a fresh server.                           *)
(***************************************************************************)
C20_NoStateRetained ==
    (warm /\ \A r \in Requests : pc[r] = "idle") => Pristine

\* a warm instance, idle between two requests
C20_Witness ==
    /\ warm
    /\ \A r \in Requests : pc[r] = "idle"
    /\ Pristine

(***************************************************************************)
(* Requests in flight together.  Cloud Functions may hand a second request *)
(* to an instance whose first one is waiting at an await; every request    *)
(* runs exports.weather with its own req, res and locals.  The requests    *)
(* drawn here are a paying one, one that pays too little, one without the  *)
(* fee payer's signature and one for another network.                      *)
(***************************************************************************)
PayingHeader ==
    [json |-> "object", x402Version |-> "num:1", scheme |-> "exact",
     network |-> "solana-mainnet-beta",
     payload |-> [kind |-> "object", txBase64 |-> "wellformed", reference |-> "ref"]]

DevnetHeader == [PayingHeader EXCEPT !.network = "solana-devnet"]

PayingIx ==
    [programId |-> TOKEN_PROGRAM_ID, decodes |-> TRUE, amount |-> PRICE,
     decimals |-> TOKEN_DECIMALS, destination |-> MERCHANT_TOKEN_ACCOUNT,
     mint |-> USDC_MINT, owner |-> "buyer"]

PayingTx ==
    [feePayer |-> "buyer",
     signatures |-> << [publicKey |-> "buyer", signature |-> "sig"] >>,
     instructions |-> << PayingIx >>]

ShortTx == [PayingTx EXCEPT !.instructions = << [PayingIx EXCEPT !.amount = PRICE - 1] >>]

UnsignedTx ==
    [PayingTx EXCEPT !.signatures = << [publicKey |-> "buyer", signature |-> Null] >>]

ConcurrentHeaders == {PayingHeader, DevnetHeader}
ConcurrentTransactions == {PayingTx, ShortTx, UnsignedTx}

\* lines 224-229 and 141-157, for a request that arrives while others wait
Arrive(r) ==
    /\ pc[r] = "idle"
    /\ \E header \in ConcurrentHeaders :
        LET h == verifyAndSettleHeader(header, paymentRequirements) IN
        \E built \in (IF h.end = "continue" /\ h.value = "wellformed"
                      THEN ConcurrentTransactions ELSE {NoTx}) :
            LET e == verifyAndSettleStart(header, paymentRequirements, built) IN
            /\ httpReq' = [httpReq EXCEPT ![r] =
                              [method |-> "GET", path |-> "/weather", header |-> header]]
            /\ tx' = [tx EXCEPT ![r] = built]
            /\ trace' = [trace EXCEPT ![r] = e.calls]
            /\ IF e.end = "await"
               THEN /\ pc' = [pc EXCEPT ![r] = "awaitBalance"]
                    /\ UNCHANGED <<outcome, response>>
               ELSE Finish(r, e, "none")
    /\ UNCHANGED <<membership, sent, answer, warm, codec, engine, client>>

\* lines 224-227, for a request without payment header that arrives while
\* others wait
ArriveUnpaid(r) ==
    /\ pc[r] = "idle"
    /\ httpReq' = [httpReq EXCEPT ![r] =
                      [method |-> "GET", path |-> "/weather", header |-> NoHeader]]
    /\ response' = [response EXCEPT ![r] = weatherPlain("GET", "/weather")]
    /\ pc' = [pc EXCEPT ![r] = "done"]
    /\ UNCHANGED <<tx, membership, trace, sent, answer, outcome, warm, codec, engine, client>>

NextConcurrent ==
    \/ \E r \in Requests : Arrive(r)
    \/ \E r \in Requests : ArriveUnpaid(r)
    \/ \E r \in Requests : BalanceReply(r)
    \/ \E r \in Requests : BalanceFail(r)
    \/ \E r \in Requests : BroadcastReply(r)
    \/ \E r \in Requests : BroadcastFail(r)
    \/ \E r \in Requests : Close(r)

Concurrent == Init /\ [][NextConcurrent]_vars

\* what verifyAndSettle makes of one request on its own, given the header, the
\* transaction Transaction.from built, and what the two services answered
\* (m, the membership record; a, the answer of sendRawTransaction)
verifyAndSettleAlone(header, built, m, a) ==
    LET req == paymentRequirements.accepts[1]
        start == verifyAndSettleStart(header, paymentRequirements, built)
        after == verifyAndSettleAfterMembership(m.isMember, built, req, a # NoAnswer)
    IN  IF start.end = "throw" THEN [e |-> start, site |-> "none", calls |-> 0]
        ELSE IF m.threw
        THEN [e |-> End("throw", ErrRpc, << >>), site |-> "none", calls |-> 0]
        ELSE IF after.end # "await"
        THEN [e |-> after, site |-> "MemberGranted", calls |-> 0]
        ELSE IF a.state = "threw"
        THEN [e |-> End("throw", a.value, << >>), site |-> "none", calls |-> 1]
        ELSE [e |-> End("return", a.value, << >>), site |-> "Settled", calls |-> 1]

\* the slot of request r tells that r was evaluated as if alone
AsAlone(r) ==
    LET alone == verifyAndSettleAlone(httpReq[r].header, tx[r], membership[r], answer[r])
    IN  /\ outcome[r] = OutcomeOf(alone.e, alone.site)
        /\ response[r] = weatherAnswer(alone.e)
        /\ Len(sent[r]) = alone.calls
        /\ \A i \in DOMAIN sent[r] : sent[r][i] = tx[r]

\* some other request is in flight or answered and not yet closed
Overlapped(r) == \E q \in Requests \ {r} : pc[q] # "idle"

(***************************************************************************)
(* C21.  With several requests in flight at their awaits, in any           *)
(* interleaving, each request that carried a payment header ends with the  *)
(* outcome, the response and the number of broadcast calls it has when     *)
(* evaluated alone with the same service answers; a request that waits for *)
(* a service can take the answer whatever the other requests are doing,    *)
(* and a request without header is challenged.                             *)
(***************************************************************************)
C21_IndependentRequests ==
    \A r \in Requests :
        /\ (pc[r] = "done" /\ Paid(r)) => AsAlone(r)
        /\ (pc[r] = "done" /\ Unpaid(r)) =>
               response[r] = Respond(402, "paymentRequirements", "none", NoReceipt)
        /\ pc[r] = "awaitBalance" => ENABLED (BalanceReply(r) \/ BalanceFail(r))
        /\ pc[r] = "awaitBroadcast" => ENABLED (BroadcastReply(r) \/ BroadcastFail(r))
        /\ pc[r] = "idle" => ENABLED Arrive(r)

\* two requests with the same transaction were in flight together; one is
\* settled and the other rejected by the network
C21_Witness ==
    \E r, q \in Requests :
        /\ r # q
        /\ tx[r] = PayingTx /\ tx[q] = PayingTx
        /\ outcome[r].kind = "Settled"
        /\ outcome[q].kind = "Rejected" /\ answer[q].state = "threw"

(***************************************************************************)
(* The header codec.  A text is a sequence of character codes, a header    *)
(* value on the wire a sequence of base64 digits 0..63 with 64 for the     *)
(* padding character "=" (digit i stands for the i-th character of the     *)
(* base64 alphabet).  A JSON value is [t, v]: t is "num" or "str", v the   *)
(* characters.  The client's fields hold characters of the base64 text of  *)
(* a transaction, of crypto.randomUUID() and of the requirement's strings: *)
(* all below 128, none of them a quote, a comma, a brace or a backslash,   *)
(* so that btoa (part_001) and Buffer.from(..).toString("base64")          *)
(* (part_003) produce the same header value.                               *)
(***************************************************************************)
CodecChars == {45, 49, 97}   \* "-", "1", "a"

Texts(n) == UNION {[1..k -> CodecChars] : k \in 1..n}

Num(chars) == [t |-> "num", v |-> chars]
Str(chars) == [t |-> "str", v |-> chars]

\* <<x402Version, scheme, network, payload.txBase64, payload.reference>>
CodecPayloads ==
    {<<Num(<<49>>), Str(<<101, 120, 97, 99, 116>>),
       Str(<<115, 111, 108, 97, 110, 97, 45, 109, 97, 105, 110, 110, 101, 116,
             45, 98, 101, 116, 97>>),
       Str(txBase64), Str(reference)>> :
     txBase64 \in Texts(MaxStr), reference \in Texts(MaxStr)}

\* part_001:282-289, part_003:121-126: JSON.stringify of the header object; a
\* number is written as its digits, a string between quotes (34), the members
\* are separated by commas (44) and the two objects wrapped in braces (123,
\* 125).  The member names, constant texts, are left out.
JSON_stringify(payload) ==
    LET text(value) == IF value.t = "num" THEN value.v ELSE <<34>> \o value.v \o <<34>>
    IN  <<123>> \o text(payload[1]) \o <<44>> \o text(payload[2]) \o <<44>>
        \o text(payload[3]) \o <<44, 123>> \o text(payload[4]) \o <<44>>
        \o text(payload[5]) \o <<125, 125>>

\* part_001:281 (btoa), part_003:121-127 (Buffer.from(..).toString("base64")):
\* three bytes make four digits, the last group is padded
RECURSIVE btoa(_)
btoa(bytes) ==
    IF Len(bytes) = 0 THEN << >>
    ELSE IF Len(bytes) = 1
    THEN <<bytes[1] \div 4, (bytes[1] % 4) * 16, 64, 64>>
    ELSE IF Len(bytes) = 2
    THEN <<bytes[1] \div 4, (bytes[1] % 4) * 16 + bytes[2] \div 16,
           (bytes[2] % 16) * 4, 64>>
    ELSE <<bytes[1] \div 4, (bytes[1] % 4) * 16 + bytes[2] \div 16,
           (bytes[2] % 16) * 4 + bytes[3] \div 64, bytes[3] % 64>>
         \o btoa(SubSeq(bytes, 4, Len(bytes)))

\* the client's header value
encodePaymentHeader(payload) == btoa(JSON_stringify(payload))

IsDigit64(d) == d # 64

\* variant: only whole groups of four digits are decoded
RECURSIVE Buffer_from_base64_wholeGroups(_)
Buffer_from_base64_wholeGroups(wire) ==
    LET d == SelectSeq(wire, IsDigit64) IN
    IF Len(d) < 4 THEN << >>
    ELSE <<d[1] * 4 + d[2] \div 16, (d[2] % 16) * 16 + d[3] \div 4,
           (d[3] % 4) * 64 + d[4]>>
         \o Buffer_from_base64_wholeGroups(SubSeq(d, 5, Len(d)))

\* line 26: Buffer.from(headerValue, "base64"): four digits make three bytes,
\* a last group of two or three digits makes one or two
RECURSIVE Buffer_from_base64(_)
Buffer_from_base64(wire) ==
    LET d == SelectSeq(wire, IsDigit64) IN
    IF Len(d) < 2 THEN << >>
    ELSE IF Len(d) = 2 THEN <<d[1] * 4 + d[2] \div 16>>
    ELSE IF Len(d) = 3
    THEN <<d[1] * 4 + d[2] \div 16, (d[2] % 16) * 16 + d[3] \div 4>>
    ELSE <<d[1] * 4 + d[2] \div 16, (d[2] % 16) * 16 + d[3] \div 4,
           (d[3] % 4) * 64 + d[4]>>
         \o Buffer_from_base64(SubSeq(d, 5, Len(d)))

\* line 26: toString("utf8"): a byte below 128 is its character, any other
\* byte outside a valid sequence becomes U+FFFD
toStringUtf8(bytes) == [i \in DOMAIN bytes |-> IF bytes[i] < 128 THEN bytes[i] ELSE 65533]

\* line 26: JSON.parse, read from left to right: text is the JSON text, i the
\* position, value the value being read ("none" between two values), values
\* the values read so far.  A quote opens a string, any other character
\* outside a string starts or continues a number.
RECURSIVE JSON_parse(_, _, _, _)
JSON_parse(text, i, value, values) ==
    IF i > Len(text) THEN values
    ELSE LET c == text[i] IN
         IF c = 123 THEN JSON_parse(text, i + 1, value, values)
         ELSE IF c = 44 \/ c = 125
         THEN JSON_parse(text, i + 1, [t |-> "none", v |-> << >>],
                         IF value.t = "none" THEN values ELSE Append(values, value))
         ELSE IF c = 34
         THEN JSON_parse(text, i + 1,
                         IF value.t = "none" THEN Str(<< >>) ELSE value, values)
         ELSE JSON_parse(text, i + 1,
                         IF value.t = "none" THEN Num(<<c>>)
                         ELSE [value EXCEPT !.v = Append(@, c)], values)

\* lines 24-30, on the header value itself
decodePaymentHeaderValue(wire) ==
    JSON_parse(toStringUtf8(Buffer_from_base64(wire)), 1, [t |-> "none", v |-> << >>], << >>)

\* part_001:281-295: the client encodes a payload and sends it
EncodeHeader ==
    /\ codec.stage = "none"
    /\ \E payload \in CodecPayloads :
        codec' = [stage |-> "sent", payload |-> payload,
                  wire |-> encodePaymentHeader(payload), decoded |-> << >>]
    /\ UNCHANGED <<pc, httpReq, tx, membership, trace, sent, answer, outcome, response,
                   warm, engine, client>>

\* line 141: the server decodes the header value
DecodeHeader ==
    /\ codec.stage = "sent"
    /\ codec' = [codec EXCEPT !.stage = "decoded",
                              !.decoded = decodePaymentHeaderValue(codec.wire)]
    /\ UNCHANGED <<pc, httpReq, tx, membership, trace, sent, answer, outcome, response,
                   warm, engine, client>>

\* the next header
ForgetHeader ==
    /\ codec.stage = "decoded"
    /\ codec' = NoCodec
    /\ UNCHANGED <<pc, httpReq, tx, membership, trace, sent, answer, outcome, response,
                   warm, engine, client>>

NextCodec == EncodeHeader \/ DecodeHeader \/ ForgetHeader

Codec == Init /\ [][NextCodec]_vars

(***************************************************************************)
(* C22.  For every payload {x402Version, scheme, network, payload:         *)
(* {txBase64, reference}} the client builds, what decodePaymentHeader      *)
(* makes of the client's header value (base64 of the JSON text) equals the *)
(* payload: same values, a number still a number, a string still a string. *)
(***************************************************************************)
C22_CodecRoundTrip ==
    codec.stage = "decoded" => codec.decoded = codec.payload

\* a round trip through a header value that ends in exactly one padding
\* character
C22_Witness ==
    /\ codec.stage = "decoded"
    /\ codec.decoded = codec.payload
    /\ codec.wire[Len(codec.wire)] = 64
    /\ codec.wire[Len(codec.wire) - 1] # 64
    /\ codec.decoded[5] = Str(<<97, 45>>)

(***************************************************************************)
(* The two services answer: a request that waits for the token-account     *)
(* query or for sendRawTransaction gets a result or an error.              *)
(***************************************************************************)
FairConcurrent ==
    /\ Concurrent
    /\ \A r \in Requests : WF_vars(BalanceReply(r) \/ BalanceFail(r))
    /\ \A r \in Requests : WF_vars(BroadcastReply(r) \/ BroadcastFail(r))

\* a request is answered exactly when it is done, and an evaluation that ran
\* has exactly one of the three outcomes
C23_OneOutcome ==
    \A r \in Requests :
        /\ pc[r] # "done" => (outcome[r] = NoOutcome /\ response[r] = NoResponse)
        /\ pc[r] = "done" => response[r].status # 0
        /\ (pc[r] = "done" /\ Paid(r)) =>
               outcome[r].kind \in {"Settled", "MemberGranted", "Rejected"}

\* the outcome and the response of a request are written once: they change
\* only from nothing to their value, and are dropped when the request is closed
C23_WrittenOnce ==
    \A r \in Requests :
        /\ outcome[r] # NoOutcome =>
               (outcome'[r] = outcome[r] \/ (pc'[r] = "idle" /\ pc[r] = "done"))
        /\ response[r] # NoResponse =>
               (response'[r] = response[r] \/ (pc'[r] = "idle" /\ pc[r] = "done"))

(***************************************************************************)
(* C23.  Provided the token-account query and sendRawTransaction answer,   *)
(* every evaluation ends: a request that waits for a service is eventually *)
(* done, with exactly one of the outcomes Settled, MemberGranted and       *)
(* Rejected, which does not change afterwards, and with exactly one        *)
(* response, sent when the outcome is reached.                             *)
(***************************************************************************)
C23_Terminates ==
    /\ []C23_OneOutcome
    /\ [][C23_WrittenOnce]_vars
    /\ \A r \in Requests :
           (pc[r] \in {"awaitBalance", "awaitBroadcast"}) ~> (pc[r] = "done")

\* a request that waited for both services is done while another one waits
C23_Witness ==
    \E r, q \in Requests :
        /\ pc[r] = "done"
        /\ membership[r].asked /\ answer[r].state = "returned"
        /\ outcome[r].kind = "Settled"
        /\ pc[q] = "awaitBroadcast"

\* the place of the first call of that name in the calls of an evaluation,
\* 0 when it was not made
First(calls, call) ==
    IF \E i \in DOMAIN calls : calls[i] = call
    THEN Min({i \in DOMAIN calls : calls[i] = call})
    ELSE 0

(***************************************************************************)
(* C24.  Within one evaluation the token-account query comes first, the    *)
(* structural validation second and the broadcast third: whenever a        *)
(* transaction was handed to sendRawTransaction, the query of the same     *)
(* evaluation had answered "not a member" and verifyTransaction had        *)
(* returned without throwing, in that order.                               *)
(***************************************************************************)
C24_StepOrder ==
    \A r \in Requests :
        /\ Called(r, "verifyTransaction") =>
            /\ 0 < First(trace[r], "getParsedTokenAccountsByOwner")
            /\ First(trace[r], "getParsedTokenAccountsByOwner")
                  < First(trace[r], "verifyTransaction")
            /\ NonMember(r)
        /\ (sent[r] # << >> \/ Called(r, "sendRawTransaction")) =>
            /\ NonMember(r)
            /\ ~verifyTransaction(tx[r], paymentRequirements.accepts[1]).threw
            /\ 0 < First(trace[r], "getParsedTokenAccountsByOwner")
            /\ First(trace[r], "getParsedTokenAccountsByOwner")
                  < First(trace[r], "verifyTransaction")
            /\ First(trace[r], "verifyTransaction")
                  < First(trace[r], "sendRawTransaction")

\* a broadcast that failed, after the query and the validation
C24_Witness ==
    \E r \in Requests :
        /\ sent[r] # << >>
        /\ answer[r].state = "threw"
        /\ NonMember(r) /\ membership[r].found
        /\ trace[r][Len(trace[r])] = "sendRawTransaction"

\* request r carried a header and a transaction that pass every check of a
\* non-member, and its transaction serialized
ValidNonMember(r) ==
    /\ Paid(r) \/ pc[r] = "awaitBroadcast"
    /\ NonMember(r)
    /\ ~verifyTransaction(tx[r], paymentRequirements.accepts[1]).threw
    /\ ~Rejected(r, ErrSerialize)

(***************************************************************************)
(* C25.  The reference gives no protection against replay: when two        *)
(* requests carry the same valid X-PAYMENT header of a non-member, one     *)
(* after the other or while the other is waiting, both pass validation and *)
(* both hand the transaction to sendRawTransaction, which so receives the  *)
(* same transaction twice.                                                 *)
(***************************************************************************)
C25_ReplayNotPrevented ==
    \A r, q \in Requests :
        ( /\ r # q
          /\ httpReq[r].header = httpReq[q].header
          /\ tx[r] = tx[q]
          /\ ValidNonMember(r) /\ ValidNonMember(q) ) =>
            /\ sent[r] = << tx[r] >>
            /\ sent[q] = << tx[r] >>
            /\ Called(r, "sendRawTransaction") /\ Called(q, "sendRawTransaction")

\* the same header was settled once, and then presented and sent again
C25_Witness ==
    \E r, q \in Requests :
        /\ r # q
        /\ httpReq[r].header = PayingHeader /\ httpReq[q].header = PayingHeader
        /\ httpReq[r].header.payload.reference = httpReq[q].header.payload.reference
        /\ tx[r] = PayingTx /\ tx[q] = PayingTx
        /\ outcome[q].kind = "Settled"
        /\ pc[r] = "awaitBroadcast"
        /\ sent[r] = << PayingTx >> /\ sent[q] = << PayingTx >>

(***************************************************************************)
(* C26.  When the fee payer owns no token account of the membership token, *)
(* the balance is taken as 0 and the decision is that of comparing 0 with  *)
(* the threshold, the same as for a fee payer whose account holds 0; the   *)
(* evaluation does not fail for the missing account and goes on to the     *)
(* validation of the transaction.                                          *)
(***************************************************************************)
C26_MissingAccountIsZero ==
    \A r \in Requests :
        (membership[r].asked /\ ~membership[r].found) =>
            /\ membership[r].balance = 0
            /\ membership[r].isMember = (0 > memberSplReq)
            /\ membership[r].isMember =
                  checkMembership(<< [mint |-> memberSpl, uiAmount |-> 0] >>).isMember
            /\ ~membership[r].threw
            /\ Called(r, "verifyTransaction")
            /\ outcome[r].kind = "Rejected" =>
                  outcome[r].value \notin {ErrRpc, ErrNoFeePayer, ErrNullHeader}

\* a fee payer without such an account pays and is settled
C26_Witness ==
    \E r \in Requests :
        /\ membership[r].asked /\ ~membership[r].found
        /\ outcome[r].kind = "Settled"
        /\ response[r].status = 200

(***************************************************************************)
(* C27.  MemberGranted depends on the fee payer the transaction names and  *)
(* on that key's balance of the membership token, and on nothing else: an  *)
(* evaluation ends in MemberGranted exactly when the token-account query   *)
(* for the fee payer answered "member", it is then answered 200, and this  *)
(* is so when the fee payer's signature is absent and when the transfer is *)
(* by the authority of another key.                                        *)
(***************************************************************************)
C27_MembershipAlone ==
    \A r \in Requests :
        /\ outcome[r].kind = "MemberGranted" <=>
               (membership[r].asked /\ membership[r].isMember)
        /\ outcome[r].kind = "MemberGranted" =>
            /\ outcome[r].value = tx[r].feePayer
            /\ tx[r].feePayer # Undefined
            /\ response[r].status = 200
            /\ response[r].body = "temperatureF"

\* a member is let in with a transaction that carries no signature of the fee
\* payer and whose transfer is by the authority of another key
C27_Witness ==
    \E r \in Requests :
        /\ outcome[r].kind = "MemberGranted"
        /\ response[r].status = 200
        /\ ~FeePayerSigned(tx[r])
        /\ Len(tx[r].instructions) = 1
        /\ tx[r].instructions[1].owner = "other"
        /\ tx[r].feePayer = "buyer"

(***************************************************************************)
(* C28.  A request is answered 200 with the protected payload only if its  *)
(* own evaluation ended in MemberGranted, or in Settled after              *)
(* sendRawTransaction was called and returned a hash.  The                 *)
(* X-PAYMENT-RESPONSE header is set on these 200 responses only: never on  *)
(* a 402, a 404 or a 204.                                                  *)
(***************************************************************************)
C28_PayloadOnlyIfGranted ==
    \A r \in Requests :
        /\ (response[r].status = 200 \/ response[r].body = "temperatureF") =>
            /\ response[r].status = 200 /\ response[r].body = "temperatureF"
            /\ \/ /\ outcome[r].kind = "MemberGranted"
                  /\ membership[r].asked /\ membership[r].isMember
               \/ /\ outcome[r].kind = "Settled"
                  /\ sent[r] = << tx[r] >>
                  /\ answer[r] = [state |-> "returned", value |-> outcome[r].value]
                  /\ ~Falsy(outcome[r].value)
        /\ response[r].receipt # NoReceipt => response[r].status = 200
        /\ response[r].status \in {204, 402, 404, 500} => response[r].receipt = NoReceipt

\* a member is served, with a receipt and without any broadcast
C28_Witness ==
    \E r \in Requests :
        /\ response[r].status = 200
        /\ response[r].receipt # NoReceipt
        /\ outcome[r].kind = "MemberGranted"
        /\ sent[r] = << >>
        /\ verifyTransaction(tx[r], paymentRequirements.accepts[1]).value = ErrAmount

\* request r has the defect that the k-th check of the order looks for; each
\* is read off the header, the transaction and the services' answers by
\* itself, whatever the other checks find
Defect(r, k) ==
    LET h == httpReq[r].header
        t == tx[r]
        built == "none" \notin DOMAIN t
        req == paymentRequirements.accepts[1]
    IN  CASE k = 1 -> h.json = "invalid"
          [] k = 2 -> h.json = "null" \/ EnvelopeDiffers(h)
          [] k = 3 -> Falsy(PayloadField(h, "txBase64"))
          [] k = 4 -> Falsy(PayloadField(h, "reference"))
          [] k = 5 -> \/ PayloadField(h, "txBase64") \in {"garbage", "nonstring"}
                      \/ built /\ t.feePayer = Undefined
          [] k = 6 -> membership[r].threw
          [] k = 7 -> built /\ TokenIxs(t) = {}
          [] k = 8 -> built /\ TokenIxs(t) # {} /\ ~Transfer(t).decodes
          [] k = 9 -> built /\ HasTransfer(t) /\ Transfer(t).decimals # TOKEN_DECIMALS
          [] k = 10 -> built /\ HasTransfer(t) /\ Transfer(t).amount # req.maxAmountRequired
          [] k = 11 -> built /\ HasTransfer(t) /\ Transfer(t).destination # req.payTo
          [] k = 12 -> built /\ HasTransfer(t) /\ Transfer(t).mint # req.asset
          [] k = 13 -> built /\ ~FeePayerSigned(t)

\* the messages with which the k-th check rejects
ReasonsOfCheck(k) ==
    CASE k = 1 -> {ErrDecode}
      [] k = 2 -> {ErrNullHeader, ErrUnsupported}
      [] k = 3 -> {ErrMissingTx}
      [] k = 4 -> {ErrMissingRef}
      [] k = 5 -> {ErrBufferFrom, ErrTxFrom, ErrNoFeePayer}
      [] k = 6 -> {ErrRpc}
      [] k = 7 -> {ErrNoTransfer}
      [] k = 8 -> {ErrDecodeIx}
      [] k = 9 -> {ErrDecimals}
      [] k = 10 -> {ErrAmount}
      [] k = 11 -> {ErrDestination}
      [] k = 12 -> {ErrMint}
      [] k = 13 -> {ErrSignature}

Defects(r) == {k \in 1..13 : Defect(r, k)}

(***************************************************************************)
(* C29.  The reason of a rejection is that of the first failing check in   *)
(* the order: header decode (1), version/scheme/network (2), txBase64      *)
(* present (3), reference present (4), deserialization of the transaction, *)
(* up to its fee payer (5), token-account query (6), token instruction     *)
(* present (7), it decodes as transferChecked (8), decimals (9), amount    *)
(* (10), destination (11), mint (12), fee payer's signature (13).  A       *)
(* request with several defects is rejected for the first of them; a       *)
(* header with another envelope and no txBase64 is rejected for the        *)
(* envelope.  A rejection without any of these defects comes from          *)
(* tx.serialize or sendRawTransaction.                                     *)
(***************************************************************************)
C29_ReasonPrecedence ==
    \A r \in Requests :
        /\ outcome[r].kind = "Rejected" =>
               LET found == Defects(r)
               IN  IF found = {}
                   THEN outcome[r].value \in {ErrSerialize} \cup SendErrors
                   ELSE outcome[r].value \in ReasonsOfCheck(Min(found))
        /\ (Paid(r) /\ EnvelopeDiffers(httpReq[r].header)
               /\ Falsy(PayloadField(httpReq[r].header, "txBase64"))) =>
               Rejected(r, ErrUnsupported)

\* a transaction with four defects, rejected for the first of them
C29_Witness ==
    \E r \in Requests :
        /\ Defects(r) = {9, 10, 12, 13}
        /\ Rejected(r, ErrDecimals)

(***************************************************************************)
(* C30.  verifyTransaction looks at the first token-program instruction    *)
(* of the transaction and at no other.  For a non-member: when that        *)
(* instruction passes all checks and the fee payer signed, the transaction *)
(* is handed to sendRawTransaction whatever its other instructions are,    *)
(* further token transfers included; when that instruction does not decode *)
(* as a transferChecked the evaluation is rejected, also when a later      *)
(* instruction is the transfer asked for.                                  *)
(***************************************************************************)
C30_FirstTokenIxOnly ==
    \A r \in Requests :
        (NonMember(r) /\ TokenIxs(tx[r]) # {}) =>
            /\ ( /\ HasTransfer(tx[r])
                 /\ Differing(tx[r]) = {}
                 /\ FeePayerSigned(tx[r])
                 /\ ~Rejected(r, ErrSerialize) ) =>
                   /\ sent[r] = << tx[r] >>
                   /\ Called(r, "sendRawTransaction")
            /\ ~Transfer(tx[r]).decodes =>
                   /\ Rejected(r, ErrDecodeIx)
                   /\ sent[r] = << >>
                   /\ response[r].status = 402

\* rejected for a first token-program instruction that is no transferChecked,
\* although the second one is the transfer asked for
C30_Witness ==
    \E r \in Requests :
        /\ NonMember(r)
        /\ Len(tx[r].instructions) = 2
        /\ tx[r].instructions[1] = OtherTokenIx
        /\ tx[r].instructions[2].decodes
        /\ tx[r].instructions[2].amount = PRICE
        /\ tx[r].instructions[2].destination = MERCHANT_TOKEN_ACCOUNT
        /\ tx[r].instructions[2].mint = USDC_MINT
        /\ tx[r].instructions[2].decimals = TOKEN_DECIMALS
        /\ FeePayerSigned(tx[r])
        /\ Rejected(r, ErrDecodeIx)

(***************************************************************************)
(* The transaction builder of the payer's page (part_001).  The wallet's   *)
(* key is "buyer"; a reference is the number of the crypto.randomUUID()    *)
(* call that made it.                                                      *)
(***************************************************************************)
MEMO_PROGRAM_ID == "MemoProgram"
COMPUTE_BUDGET_PROGRAM_ID == "ComputeBudgetProgram"

\* spl-token createTransferCheckedInstruction(source, mint, destination,
\* owner, amount, decimals): an instruction of the token program that
\* decodeTransferCheckedInstruction reads back with the same keys and data;
\* the source account is not read by the server and is left out
createTransferCheckedInstruction(source, mint, destination, owner, amount, decimals) ==
    [programId |-> TOKEN_PROGRAM_ID, decodes |-> TRUE, amount |-> amount,
     decimals |-> decimals, destination |-> destination, mint |-> mint,
     owner |-> owner]

\* part_001:213-219: the memo instruction, data "x402:" followed by ref
memoInstruction(ref) ==
    [programId |-> MEMO_PROGRAM_ID, decodes |-> FALSE, amount |-> 0, decimals |-> 0,
     destination |-> Undefined, mint |-> Undefined, owner |-> Undefined,
     data |-> <<"x402:", ref>>]

\* part_001:223-226: ComputeBudgetProgram.setComputeUnitLimit / Price
computeBudgetInstruction(directive) ==
    [programId |-> COMPUTE_BUDGET_PROGRAM_ID, decodes |-> FALSE, amount |-> 0,
     decimals |-> 0, destination |-> Undefined, mint |-> Undefined,
     owner |-> Undefined, data |-> <<directive>>]

\* variant: the merchant account and the mint are handed over in each other's
\* place
buildPaymentTransaction_swappedKeys(requirements, ref, publicKey) ==
    LET paymentSpec == requirements.accepts[1] IN
    [feePayer |-> publicKey,
     signatures |-> << >>,
     instructions |->
        << createTransferCheckedInstruction("buyerATA", paymentSpec.payTo,
               paymentSpec.asset, publicKey, paymentSpec.maxAmountRequired, 6),
           memoInstruction(ref),
           computeBudgetInstruction("setComputeUnitLimit"),
           computeBudgetInstruction("setComputeUnitPrice") >>]

\* part_001:177-226: the transaction built from requirements.accepts[0] once
\* the address and blockhash queries have answered
buildPaymentTransaction(requirements, ref, publicKey) ==
    LET paymentSpec == requirements.accepts[1] IN
    [feePayer |-> publicKey,
     signatures |-> << >>,
     instructions |->
        << createTransferCheckedInstruction("buyerATA", paymentSpec.asset,
               paymentSpec.payTo, publicKey, paymentSpec.maxAmountRequired, 6),
           memoInstruction(ref),
           computeBudgetInstruction("setComputeUnitLimit"),
           computeBudgetInstruction("setComputeUnitPrice") >>]

\* part_001:250: what provider.signTransaction resolves to: the transaction
\* with the signature of the wallet's key, the fee payer
walletSignTransaction(t) ==
    [t EXCEPT !.signatures = << [publicKey |-> t.feePayer, signature |-> "sig"] >>]

\* the reference in the memo instruction of t
MemoReference(t) ==
    LET memos == {i \in DOMAIN t.instructions :
                     t.instructions[i].programId = MEMO_PROGRAM_ID}
    IN  t.instructions[Min(memos)].data[2]

(***************************************************************************)
(* The engine on requirements with several entries.  The handler of        *)
(* index.js publishes one entry; validatePaymentRequirements and           *)
(* verifyTransaction take the requirements as an argument, and are applied *)
(* here to lists of up to MaxAccepts entries.                              *)
(***************************************************************************)
MaxAccepts == 2    \* entries in accepts

DevnetEntry ==
    [scheme |-> "exact", network |-> "solana-devnet", asset |-> "otherMint",
     maxAmountRequired |-> PRICE + 1, payTo |-> "otherTokenAcc",
     resource |-> "GET /weather", maxTimeoutSeconds |-> 120]

UptoEntry ==
    [scheme |-> "upto", network |-> "solana-mainnet-beta", asset |-> USDC_MINT,
     maxAmountRequired |-> PRICE - 1, payTo |-> MERCHANT_TOKEN_ACCOUNT,
     resource |-> "GET /weather", maxTimeoutSeconds |-> 120]

AcceptEntries == {paymentRequirements.accepts[1], DevnetEntry, UptoEntry}

RequirementLists ==
    {[x402Version |-> "num:1", accepts |-> accepts] :
        accepts \in UNION {[1..k -> AcceptEntries] : k \in 1..MaxAccepts}}

EngineHeaders ==
    [json : {"object"}, x402Version : {"num:1"}, scheme : {"exact", "upto"},
     network : {"solana-mainnet-beta", "solana-devnet"},
     payload : {[kind |-> "object", txBase64 |-> "wellformed", reference |-> "ref"]}]

\* the transactions the page builds from one entry, signed by the wallet, and
\* one that was not signed
EngineTransactions ==
    {walletSignTransaction(
         buildPaymentTransaction([x402Version |-> "num:1", accepts |-> <<entry>>], 1,
                                 "buyer")) : entry \in AcceptEntries}
    \cup {buildPaymentTransaction(paymentRequirements, 1, "buyer")}

\* lines 141-170 with the membership answer isMember: req is what
\* validatePaymentRequirements returned at line 142
verifyAndSettleSync(headerValue, requirements, built, isMember) ==
    LET start == verifyAndSettleStart(headerValue, requirements, built) IN
    IF start.end # "await" THEN start
    ELSE LET req == validatePaymentRequirements(decodePaymentHeader(headerValue).value,
                                                requirements).value
             after == verifyAndSettleAfterMembership(isMember, built, req, TRUE)
         IN  End(after.end, after.value, start.calls \o after.calls)

EngineEvaluate ==
    /\ engine.stage = "none"
    /\ \E requirements \in RequirementLists, header \in EngineHeaders,
          built \in EngineTransactions, isMember \in BOOLEAN :
        engine' = [stage |-> "done", requirements |-> Some(requirements),
                   header |-> header, tx |-> built, isMember |-> isMember,
                   e |-> verifyAndSettleSync(header, requirements, built, isMember)]
    /\ UNCHANGED <<pc, httpReq, tx, membership, trace, sent, answer, outcome, response,
                   warm, codec, client>>

EngineForget ==
    /\ engine.stage = "done"
    /\ engine' = NoEngine
    /\ UNCHANGED <<pc, httpReq, tx, membership, trace, sent, answer, outcome, response,
                   warm, codec, client>>

NextEngine == EngineEvaluate \/ EngineForget

Engine == Init /\ [][NextEngine]_vars

\* the header of the evaluation names the scheme and network of entry
HeaderNames(entry) ==
    /\ engine.header.scheme = entry.scheme
    /\ engine.header.network = entry.network

\* the first token instruction of the evaluation's transaction is the
\* transfer that entry asks for
TransferPays(entry) ==
    LET ix == engine.tx.instructions[findTransferIx(engine.tx)] IN
    /\ ix.amount = entry.maxAmountRequired
    /\ ix.destination = entry.payTo
    /\ ix.mint = entry.asset

\* the evaluation handed the transaction to sendRawTransaction
EngineBroadcasts ==
    /\ engine.e.end = "await"
    /\ engine.e.calls[Len(engine.e.calls)] = "sendRawTransaction"

(***************************************************************************)
(* C31.  The transaction the page builds from requirements R and the       *)
(* wallet signs passes verifyTransaction against R.accepts[0]: it has four *)
(* instructions, the transferChecked first, and when it comes in a header  *)
(* naming R's scheme and network from a non-member, the engine hands it to *)
(* sendRawTransaction.                                                     *)
(***************************************************************************)
C31_BuiltPasses ==
    LET R == engine.requirements[1]
        built == walletSignTransaction(buildPaymentTransaction(R, 1, "buyer"))
    IN  (engine.stage = "done" /\ engine.tx = built) =>
            /\ Len(engine.tx.instructions) = 4
            /\ findTransferIx(engine.tx) = 1
            /\ verifyTransaction(engine.tx, R.accepts[1]) = Ok("buyer")
            /\ (HeaderNames(R.accepts[1]) /\ ~engine.isMember) => EngineBroadcasts

\* a transaction built for a requirement other than the one index.js
\* publishes, broadcast for a non-member
C31_Witness ==
    /\ engine.stage = "done"
    /\ engine.requirements[1].accepts[1] = DevnetEntry
    /\ engine.tx = walletSignTransaction(
                       buildPaymentTransaction(engine.requirements[1], 1, "buyer"))
    /\ HeaderNames(DevnetEntry)
    /\ ~engine.isMember
    /\ EngineBroadcasts

(***************************************************************************)
(* C36.  The engine consults accepts[0] and no other entry.  A header      *)
(* whose scheme and network are not those of accepts[0] is rejected as     *)
(* unsupported before the transaction is read, also when a later entry has *)
(* that scheme and network; a non-member's transaction whose transfer      *)
(* differs from accepts[0] in amount, destination or mint is rejected,     *)
(* also when it is the transfer a later entry asks for; and a transaction  *)
(* that is broadcast pays what accepts[0] asks for.                        *)
(***************************************************************************)
C36_FirstEntryOnly ==
    engine.stage = "done" =>
        LET first == engine.requirements[1].accepts[1] IN
        /\ ~HeaderNames(first) =>
               engine.e = End("throw", ErrUnsupported, << "decode", "validate" >>)
        /\ (HeaderNames(first) /\ ~engine.isMember /\ ~TransferPays(first)) =>
               /\ engine.e.end = "throw"
               /\ engine.e.value \in {ErrAmount, ErrDestination, ErrMint}
        /\ EngineBroadcasts => HeaderNames(first) /\ TransferPays(first)

\* header and transaction are those the second entry asks for, and the
\* header is rejected
C36_Witness ==
    /\ engine.stage = "done"
    /\ Len(engine.requirements[1].accepts) = 2
    /\ engine.requirements[1].accepts[2] = DevnetEntry
    /\ HeaderNames(DevnetEntry)
    /\ TransferPays(DevnetEntry)
    /\ ~HeaderNames(engine.requirements[1].accepts[1])
    /\ engine.e = End("throw", ErrUnsupported, << "decode", "validate" >>)

(***************************************************************************)
(* The payer's page (part_001, the Wallet component).  A handler runs from *)
(* a click to its first await, and from the answer of an await to the next *)
(* one; in between the page takes clicks on the buttons that are enabled,  *)
(* so that a handler in flight may find the state changed.  A handler      *)
(* reads the component's state as it was rendered when the button was      *)
(* clicked (its closure), and writes it with the set functions.            *)
(***************************************************************************)
MaxTasks == 2      \* handlers in flight at one time
MaxUuids == 2      \* calls of crypto.randomUUID()

\* the requirements as the revision of part_003:650-683 publishes them
paymentRequirementsWithExtra ==
    [x402Version |-> "num:1",
     accepts |-> << [scheme |-> "exact",
                     network |-> "solana-mainnet-beta",
                     asset |-> USDC_MINT,
                     maxAmountRequired |-> PRICE,
                     payTo |-> MERCHANT_TOKEN_ACCOUNT,
                     resource |-> "GET /weather",
                     maxTimeoutSeconds |-> 120,
                     extra |-> [memberType |-> "free access",
                                memberSPLToken |-> memberSpl,
                                memberRequirement |-> memberSplReq]] >>]

\* the bodies of the 402 answers the page may get
Published == {paymentRequirements, paymentRequirementsWithExtra}

\* the wallet's token accounts: none, or one of the membership token with a
\* balance above the threshold
ClientAccountLists ==
    {<< >>, << [mint |-> memberSpl, uiAmount |-> memberSplReq + 1] >>}

\* a handler in flight: the button (handler), the await it is at, the
\* paymentRequirements of its closure (stored), and its locals
Task(handler, stored) ==
    [handler |-> handler, at |-> "start", stored |-> stored, requirements |-> None,
     tx |-> None, ref |-> None, checkedOn |-> None]

\* part_001:107-148: the status checkMembership sets, from accepts[0].extra
\* and the accounts the query returned
membershipStatusOf(requirements, tokenAccounts) ==
    LET spec == requirements.accepts[1]
        memberSPLToken ==
            IF "extra" \in DOMAIN spec THEN spec.extra.memberSPLToken ELSE Undefined
        memberRequirement ==
            IF "extra" \in DOMAIN spec THEN spec.extra.memberRequirement ELSE 0
        matching == {i \in DOMAIN tokenAccounts : tokenAccounts[i].mint = memberSPLToken}
        balance == IF matching = {} THEN 0 ELSE tokenAccounts[Min(matching)].uiAmount
    IN  IF Falsy(memberSPLToken)
        THEN [isMember |-> FALSE, balance |-> 0, required |-> 0]
        ELSE [isMember |-> balance > memberRequirement, balance |-> balance,
              required |-> memberRequirement]

\* part_001:65-72: fetchPaymentRequirements up to the await of fetch
fetchPaymentRequirementsStart(c, k) ==
    [c |-> [c EXCEPT !.currentStep = "fetching-requirements"],
     k |-> [k EXCEPT !.at = "fetch"]]

\* part_001:96-128: checkMembership up to its return or to the await of the
\* token-account query; paymentRequirements is the one of the closure
checkMembershipStart(c, k) ==
    IF k.stored = None
    THEN [c |-> c, k |-> [k EXCEPT !.at = "returned"]]
    ELSE LET spec == k.stored[1].accepts[1] IN
         IF "extra" \notin DOMAIN spec
         THEN [c |-> [c EXCEPT !.membershipStatus =
                                   Some(membershipStatusOf(k.stored[1], << >>)),
                               !.currentStep = "membership-checked"],
               k |-> [k EXCEPT !.at = "returned", !.checkedOn = k.stored]]
         ELSE [c |-> [c EXCEPT !.currentStep = "checking-membership"],
               k |-> [k EXCEPT !.at = "rpc", !.checkedOn = k.stored]]

\* part_001:168-189: buildPaymentTransaction(k.requirements) up to the await
\* of the address query; requirements.accepts[0] of null throws into the catch
buildPaymentTransactionStart(c, k) ==
    IF k.requirements = None
    THEN [c |-> [c EXCEPT !.currentStep = "membership-checked"],
          k |-> [k EXCEPT !.at = "threw"]]
    ELSE [c |-> [c EXCEPT !.currentStep = "building-tx"],
          k |-> [k EXCEPT !.at = "build"]]

\* part_001:190-233: the rest of buildPaymentTransaction
buildPaymentTransactionDone(c, k) ==
    LET ref == c.uuids + 1 IN
    [c |-> [c EXCEPT !.uuids = ref, !.paymentReference = Some(ref),
                     !.currentStep = "tx-built"],
     k |-> [k EXCEPT !.at = "returned", !.ref = Some(ref),
                     !.tx = Some(buildPaymentTransaction(k.requirements[1], ref,
                                                         "buyer"))]]

\* part_001:245-250: signTransaction up to the await of the wallet
signTransactionStart(c, k) ==
    [c |-> [c EXCEPT !.currentStep = "signing"], k |-> [k EXCEPT !.at = "sign"]]

\* part_001:251-254
signTransactionDone(c, k) ==
    LET signed == walletSignTransaction(k.tx[1]) IN
    [c |-> [c EXCEPT !.signedTransaction = Some(signed), !.currentStep = "tx-signed"],
     k |-> [k EXCEPT !.at = "returned", !.tx = Some(signed)]]

\* part_001:296-298 and 319-324: the server answered with an error status
submitPaymentFailed(c, k) ==
    [c |-> [c EXCEPT !.currentStep = "tx-signed",
                     !.rejected = @ \cup {MemoReference(k.tx[1])}],
     k |-> [k EXCEPT !.at = "threw"]]

\* part_001:266-294: submitPayment(signed, ref, requirements) up to the await
\* of fetch; signed.serialize() and requirements.accepts[0] of null throw into
\* the catch.  The payload sent is recorded with whether the server has
\* rejected this transaction before.
submitPaymentStart(c, k, signed, ref, requirements) ==
    IF signed = None \/ requirements = None
    THEN [c |-> [c EXCEPT !.currentStep = "tx-signed"], k |-> [k EXCEPT !.at = "threw"]]
    ELSE [c |-> [c EXCEPT !.currentStep = "submitting",
                          !.header =
                              Some([tx |-> signed[1], reference |-> ref,
                                    resent |-> MemoReference(signed[1]) \in c.rejected])],
          k |-> [k EXCEPT !.at = "submit", !.tx = signed, !.ref = ref,
                          !.requirements = requirements]]

\* part_001:301-318
submitPaymentDone(c, k) ==
    [c |-> [c EXCEPT !.weatherData = Some("data"), !.currentStep = "complete"],
     k |-> [k EXCEPT !.at = "returned"]]

\* the header value of a submission as the server decodes it
ClientHeader(requirements, ref) ==
    [json |-> "object", x402Version |-> requirements.x402Version,
     scheme |-> requirements.accepts[1].scheme,
     network |-> requirements.accepts[1].network,
     payload |-> [kind |-> "object", txBase64 |-> "wellformed",
                  reference |-> IF ref = None THEN Null ELSE "ref"]]

\* the handler went on to its next function: what it does up to the next
\* await.  executeFullFlow (part_001:342-354) calls the five functions one
\* after the other, the Sign button (653-656) builds and signs.
NextFunction(s, done) ==
    IF s.k.at # "returned" THEN s
    ELSE IF s.k.handler = "flow" /\ done = "fetch"
    THEN LET m == checkMembershipStart(s.c, s.k) IN
         IF m.k.at = "rpc" THEN m ELSE buildPaymentTransactionStart(m.c, m.k)
    ELSE IF s.k.handler = "flow" /\ done = "check"
    THEN buildPaymentTransactionStart(s.c, s.k)
    ELSE IF s.k.handler \in {"flow", "sign"} /\ done = "build"
    THEN signTransactionStart(s.c, s.k)
    ELSE IF s.k.handler = "flow" /\ done = "sign"
    THEN submitPaymentStart(s.c, s.k, s.k.tx, s.k.ref, s.k.requirements)
    ELSE s

RemoveAt(seq, i) == SubSeq(seq, 1, i - 1) \o SubSeq(seq, i + 1, Len(seq))

\* the page after a click started the handler s.k
Started(s) ==
    [s.c EXCEPT !.tasks = IF s.k.at \in {"returned", "threw"}
                          THEN @ ELSE Append(@, s.k)]

\* the page after the handler in flight at position i went on as s
Resumed(i, s) ==
    [s.c EXCEPT !.tasks = IF s.k.at \in {"returned", "threw"}
                          THEN RemoveAt(@, i) ELSE [@ EXCEPT ![i] = s.k]]

ServerVars == <<pc, httpReq, tx, membership, trace, sent, answer, outcome, response,
                warm, codec, engine>>

\* part_001:41-55: connectPhantom, with the accounts the wallet's key has
ClickConnect ==
    /\ ~client.connected
    /\ \E accounts \in ClientAccountLists :
        client' = [client EXCEPT !.connected = TRUE, !.accounts = accounts,
                                 !.currentStep = "idle"]
    /\ UNCHANGED ServerVars

\* part_001:458-459
ClickFetch ==
    /\ client.connected
    /\ client.currentStep \in {"idle", "requirements-received"}
    /\ Len(client.tasks) < MaxTasks
    /\ client' = Started(fetchPaymentRequirementsStart(
                             client, Task("fetch", client.paymentRequirements)))
    /\ UNCHANGED ServerVars

\* part_001:496 and 516-517
ClickCheck ==
    /\ client.connected /\ client.paymentRequirements # None
    /\ client.currentStep \in {"requirements-received", "membership-checked"}
    /\ Len(client.tasks) < MaxTasks
    /\ client' = Started(checkMembershipStart(
                             client, Task("check", client.paymentRequirements)))
    /\ UNCHANGED ServerVars

\* part_001:562 and 582-589
ClickBuild ==
    /\ client.connected /\ client.membershipStatus # None
    /\ client.currentStep \in {"membership-checked", "tx-built"}
    /\ Len(client.tasks) < MaxTasks
    /\ client' = Started(buildPaymentTransactionStart(
                             client,
                             [Task("build", client.paymentRequirements)
                                 EXCEPT !.requirements = client.paymentRequirements]))
    /\ UNCHANGED ServerVars

\* part_001:633 and 653-660
ClickSign ==
    /\ client.connected
    /\ client.currentStep = "tx-built"
    /\ Len(client.tasks) < MaxTasks
    /\ client' = Started(buildPaymentTransactionStart(
                             client,
                             [Task("sign", client.paymentRequirements)
                                 EXCEPT !.requirements = client.paymentRequirements]))
    /\ UNCHANGED ServerVars

\* part_001:678 and 698-705
ClickSubmit ==
    /\ client.connected
    /\ client.currentStep = "tx-signed"
    /\ Len(client.tasks) < MaxTasks
    /\ client' = Started(submitPaymentStart(
                             client, Task("submit", client.paymentRequirements),
                             client.signedTransaction, client.paymentReference,
                             client.paymentRequirements))
    /\ UNCHANGED ServerVars

\* part_001:330-342 and 787-788
ClickFullFlow ==
    /\ client.connected
    /\ client.currentStep \in {"idle", "complete"}
    /\ Len(client.tasks) < MaxTasks
    /\ client' = Started(fetchPaymentRequirementsStart(
                             [client EXCEPT !.weatherData = None],
                             Task("flow", client.paymentRequirements)))
    /\ UNCHANGED ServerVars

\* part_001:364-372 and 804-805
ClickReset ==
    /\ ~(client.currentStep = "idle" /\ client.weatherData = None)
    /\ client' = [client EXCEPT !.currentStep = "idle",
                                !.paymentRequirements = None,
                                !.membershipStatus = None,
                                !.signedTransaction = None,
                                !.paymentReference = None,
                                !.weatherData = None]
    /\ UNCHANGED ServerVars

\* part_001:72-90: fetch answers with the 402 and its body, or otherwise
FetchAnswers(i) ==
    /\ i \in DOMAIN client.tasks /\ client.tasks[i].at = "fetch"
    /\ LET k == client.tasks[i] IN
       \/ \E requirements \in Published :
            client' = Resumed(i, NextFunction(
                [c |-> [client EXCEPT !.paymentRequirements = Some(requirements),
                                      !.currentStep = "requirements-received"],
                 k |-> [k EXCEPT !.at = "returned",
                                 !.requirements = Some(requirements)]], "fetch"))
       \/ client' = Resumed(i, [c |-> [client EXCEPT !.currentStep = "idle"],
                                k |-> [k EXCEPT !.at = "threw"]])
    /\ UNCHANGED ServerVars

\* part_001:125-162: the token-account query answers, or throws
AccountsAnswer(i) ==
    /\ i \in DOMAIN client.tasks /\ client.tasks[i].at = "rpc"
    /\ LET k == client.tasks[i] IN
       \/ client' = Resumed(i, NextFunction(
              [c |-> [client EXCEPT !.membershipStatus =
                                        Some(membershipStatusOf(k.checkedOn[1],
                                                                client.accounts)),
                                    !.currentStep = "membership-checked"],
               k |-> [k EXCEPT !.at = "returned"]], "check"))
       \/ client' = Resumed(i, [c |-> [client EXCEPT !.currentStep =
                                                         "requirements-received"],
                                k |-> [k EXCEPT !.at = "threw"]])
    /\ UNCHANGED ServerVars

\* part_001:183-239: the address and blockhash queries answer, or throw
BlockhashAnswers(i) ==
    /\ i \in DOMAIN client.tasks /\ client.tasks[i].at = "build"
    /\ LET k == client.tasks[i] IN
       \/ /\ client.uuids < MaxUuids
          /\ client' = Resumed(i, NextFunction(buildPaymentTransactionDone(client, k),
                                               "build"))
       \/ client' = Resumed(i, [c |-> [client EXCEPT !.currentStep =
                                                         "membership-checked"],
                                k |-> [k EXCEPT !.at = "threw"]])
    /\ UNCHANGED ServerVars

\* part_001:250-260: the wallet signs, or the user declines
WalletAnswers(i) ==
    /\ i \in DOMAIN client.tasks /\ client.tasks[i].at = "sign"
    /\ LET k == client.tasks[i] IN
       \/ client' = Resumed(i, NextFunction(signTransactionDone(client, k), "sign"))
       \/ client' = Resumed(i, [c |-> [client EXCEPT !.currentStep = "tx-built"],
                                k |-> [k EXCEPT !.at = "threw"]])
    /\ UNCHANGED ServerVars

\* part_001:291-324: the server answers the submission.  It serves the
\* resource when its evaluation of the header, with the balance of the
\* wallet's key, ends without an error; it may always answer 402 (its
\* token-account query or the broadcast failed).
ServerAnswers(i) ==
    /\ i \in DOMAIN client.tasks /\ client.tasks[i].at = "submit"
    /\ LET k == client.tasks[i]
           e == verifyAndSettleSync(ClientHeader(k.requirements[1], k.ref),
                                    paymentRequirements, k.tx[1],
                                    checkMembership(client.accounts).isMember)
       IN
       \/ /\ e.end # "throw"
          /\ client' = Resumed(i, submitPaymentDone(client, k))
       \/ client' = Resumed(i, submitPaymentFailed(client, k))
    /\ UNCHANGED ServerVars

NextClient ==
    \/ ClickConnect
    \/ ClickFetch
    \/ ClickCheck
    \/ ClickBuild
    \/ ClickSign
    \/ ClickSubmit
    \/ ClickFullFlow
    \/ ClickReset
    \/ \E i \in 1..MaxTasks : FetchAnswers(i)
    \/ \E i \in 1..MaxTasks : AccountsAnswer(i)
    \/ \E i \in 1..MaxTasks : BlockhashAnswers(i)
    \/ \E i \in 1..MaxTasks : WalletAnswers(i)
    \/ \E i \in 1..MaxTasks : ServerAnswers(i)

Client == Init /\ [][NextClient]_vars

(***************************************************************************)
(* C32.  The reference in the payload of a submitted X-PAYMENT header is   *)
(* the reference in the memo instruction of the signed transaction in that *)
(* same payload, whatever the clicks and answers before the submission.    *)
(***************************************************************************)
C32_ReferenceMatchesMemo ==
    client.header # None =>
        client.header[1].reference = Some(MemoReference(client.header[1].tx))

(***************************************************************************)
(* C33.  The isMember the page computes from the requirements it was       *)
(* given and the balance of the wallet's key is the decision of the        *)
(* server's checkMembership for that key.                                  *)
(***************************************************************************)
C33_MembershipAgrees ==
    client.membershipStatus # None =>
        client.membershipStatus[1].isMember = checkMembership(client.accounts).isMember

(***************************************************************************)
(* C34.  A signed transaction that the server rejected is not submitted    *)
(* again: no header carries a transaction rejected before.                 *)
(***************************************************************************)
C34_NeverResends ==
    client.header # None => ~client.header[1].resent

(***************************************************************************)
(* C35.  A full flow started with no stored requirements that has gone on  *)
(* to build, sign or submit has had its membership check evaluate the      *)
(* requirements it fetched.                                                *)
(***************************************************************************)
C35_FlowChecksFetched ==
    \A i \in DOMAIN client.tasks :
        LET k == client.tasks[i] IN
        (k.handler = "flow" /\ k.stored = None /\ k.at \in {"build", "sign", "submit"}) =>
            k.checkedOn = k.requirements

====
